---- MODULE Spec2Model ----
(***************************************************************************)
(* Model of the BarSignal catalog validator, validateCatalog(), as it is   *)
(* written in scripts/validate-catalog.ts and in the later revision kept   *)
(* in scripts/README.md, and of the thumbnail generator (unnamed/part_000). *)
(*                                                                         *)
(* A JSON value is a pair <<tag, payload>>.  A string is a sequence of     *)
(* one-character strings, so that trim, startsWith, the regular            *)
(* expressions and path.basename/extname are computed on characters.       *)
(* An object is the sequence of its <<key, value>> pairs in Object.keys    *)
(* order.  The numbers of the inputs are integers.                         *)
(***************************************************************************)
EXTENDS Integers, Sequences, FiniteSets, TLC

VARIABLES
    revision,        \* which revision of validateCatalog runs
    catalogFile,     \* drinks.json on disk: [exists, parses, value]
    flagsFile,       \* flags.json on disk: [exists, parses, value]
    env,             \* process.env.VALIDATE_IMAGE_FILES
    files,           \* the paths (relative to the catalog root) that exist
    pc,              \* position inside validateCatalog
    index,           \* index of the next element the running forEach visits
    seenIds,         \* the Set seenIds
    result,          \* the ValidationResult being built
    checkImageFiles, \* the local checkImageFiles
    probes,          \* the image paths handed to fs.existsSync so far
    exitCode,        \* the exit code of the process, once it has ended
    listing,         \* fs.readdirSync(srcDir): the names in drinks/, in order
    unreadable,      \* the names in drinks/ that sharp fails to read
    sharpInstalled,  \* whether require.resolve('sharp') succeeds
    thumbs,          \* drinks/_thumbs: file name |-> content
    gpc,             \* position inside the generator's main
    sources,         \* the local `files`: the listing after the filter
    fileIndex,       \* position in sources of the loop variable f
    targetIndex,     \* position in targets of the loop variable t
    exists,          \* the local `exists`
    created,         \* the local `created`
    inFlight,        \* the resizes started and not yet settled
    wrote,           \* the outputs logged with 'Wrote', in order
    reported,        \* the count printed by the last line of main
    run,             \* 1 in the first run of the generator, 2 in the second
    afterFirstRun,   \* drinks/_thumbs as the first run left it
    beforeRun        \* drinks/_thumbs as the run that is under way found it

vars == <<revision, catalogFile, flagsFile, env, files, pc, index,
          seenIds, result, checkImageFiles, probes, exitCode,
          listing, unreadable, sharpInstalled, thumbs, gpc, sources,
          fileIndex, targetIndex, exists, created, inFlight, wrote, reported,
          run, afterFirstRun, beforeRun>>

\* the variables of the thumbnail generator, and those of the validator
generator == <<listing, unreadable, sharpInstalled, thumbs, gpc, sources,
               fileIndex, targetIndex, exists, created, inFlight, wrote,
               reported, run, afterFirstRun, beforeRun>>
validator == <<revision, catalogFile, flagsFile, env, files, pc, index,
               seenIds, result, checkImageFiles, probes>>

(***************************************************************************)
(* JSON values and the JavaScript operations on them                       *)
(***************************************************************************)
Undefined == <<"undefined", 0>>
JNull == <<"null", 0>>
JBool(b) == <<"boolean", b>>
JNum(n) == <<"number", n>>
JStr(s) == <<"string", s>>
JArr(a) == <<"array", a>>
JObj(o) == <<"object", o>>

Tag(v) == v[1]
Val(v) == v[2]

\* typeof v
TypeOf(v) ==
    IF Tag(v) \in {"null", "array", "object"} THEN "object" ELSE Tag(v)

\* Array.isArray(v)
IsArray(v) == Tag(v) = "array"

\* ToBoolean(v): what `if (v)` and `!v` test
Truthy(v) ==
    CASE Tag(v) = "undefined" -> FALSE
      [] Tag(v) = "null" -> FALSE
      [] Tag(v) = "boolean" -> Val(v)
      [] Tag(v) = "number" -> Val(v) /= 0
      [] Tag(v) = "string" -> Val(v) /= <<>>
      [] OTHER -> TRUE

\* Reading a property of null or undefined throws a TypeError
ReadThrows(v) == Tag(v) \in {"null", "undefined"}

\* The decimal forms of the array indices the inputs reach
IndexKey(i) ==
    CASE i = 0 -> "0" [] i = 1 -> "1" [] i = 2 -> "2" [] i = 3 -> "3"
      [] i = 4 -> "4" [] OTHER -> "5"

\* Object.keys(v)
ObjectKeys(v) ==
    CASE Tag(v) = "object" -> [i \in 1..Len(Val(v)) |-> Val(v)[i][1]]
      [] Tag(v) \in {"array", "string"} ->
            [i \in 1..Len(Val(v)) |-> IndexKey(i - 1)]
      [] OTHER -> <<>>

\* Object.entries(v): the <<key, value>> pairs
ObjectEntries(v) ==
    CASE Tag(v) = "object" -> Val(v)
      [] Tag(v) = "array" ->
            [i \in 1..Len(Val(v)) |-> <<IndexKey(i - 1), Val(v)[i]>>]
      [] Tag(v) = "string" ->
            [i \in 1..Len(Val(v)) |-> <<IndexKey(i - 1), JStr(<<Val(v)[i]>>)>>]
      [] OTHER -> <<>>

\* `key in v` for an object or array v
HasKey(v, key) ==
    \E i \in 1..Len(ObjectKeys(v)) : ObjectKeys(v)[i] = key

\* v[key] for a value that can be read; a missing property is undefined
Get(v, key) ==
    IF HasKey(v, key)
    THEN LET i == CHOOSE j \in 1..Len(ObjectKeys(v)) : ObjectKeys(v)[j] = key
         IN ObjectEntries(v)[i][2]
    ELSE Undefined

\* typeof v !== 'undefined'
Defined(v) == Tag(v) /= "undefined"

\* a.every(x => typeof x === 'string')
EveryString(a) == \A i \in 1..Len(Val(a)) : Tag(Val(a)[i]) = "string"

(***************************************************************************)
(* Strings                                                                 *)
(***************************************************************************)
WhiteSpace == {" ", "\t", "\n"}

RECURSIVE TrimStart(_)
TrimStart(s) ==
    IF s /= <<>> /\ Head(s) \in WhiteSpace THEN TrimStart(Tail(s)) ELSE s

RECURSIVE TrimEnd(_)
TrimEnd(s) ==
    IF s /= <<>> /\ s[Len(s)] \in WhiteSpace
    THEN TrimEnd(SubSeq(s, 1, Len(s) - 1))
    ELSE s

\* s.trim()
Trim(s) == TrimEnd(TrimStart(s))

\* s.startsWith(p)
StartsWith(s, p) == Len(s) >= Len(p) /\ SubSeq(s, 1, Len(p)) = p

\* s.endsWith(p)
EndsWith(s, p) ==
    Len(s) >= Len(p) /\ SubSeq(s, Len(s) - Len(p) + 1, Len(s)) = p

LowerAlnum ==
    {"a", "b", "c", "d", "e", "f", "g", "h", "i", "j", "k", "l", "m", "n",
     "o", "p", "q", "r", "s", "t", "u", "v", "w", "x", "y", "z",
     "0", "1", "2", "3", "4", "5", "6", "7", "8", "9", "_"}

\* SnakeCase with the hyphen among the characters of an id
SnakeCase_WithHyphen(s) ==
    s /= <<>> /\ \A i \in 1..Len(s) : s[i] \in LowerAlnum \cup {"-"}

\* /^[a-z0-9_]+$/.test(s)
SnakeCase(s) == s /= <<>> /\ \A i \in 1..Len(s) : s[i] \in LowerAlnum

\* the lower-case form of a character, for the /i flag
ToLower(c) ==
    CASE c = "P" -> "p" [] c = "N" -> "n" [] c = "G" -> "g"
      [] c = "J" -> "j" [] c = "A" -> "a" [] c = "B" -> "b"
      [] c = "E" -> "e" [] c = "W" -> "w"
      [] OTHER -> c

\* /\.(png)$/i.test(s)
EndsWithPng(s) ==
    EndsWith([i \in 1..Len(s) |-> ToLower(s[i])], <<".", "p", "n", "g">>)

(***************************************************************************)
(* path.basename and path.extname (posix)                                  *)
(***************************************************************************)
RECURSIVE StripTrailingSlashes(_)
StripTrailingSlashes(p) ==
    IF p /= <<>> /\ p[Len(p)] = "/"
    THEN StripTrailingSlashes(SubSeq(p, 1, Len(p) - 1))
    ELSE p

\* the index of the last occurrence of c in s, 0 when there is none
LastIndexOf(s, c) ==
    IF \E i \in 1..Len(s) : s[i] = c
    THEN CHOOSE i \in 1..Len(s) :
            s[i] = c /\ \A j \in (i + 1)..Len(s) : s[j] /= c
    ELSE 0

\* the last path segment, trailing slashes ignored
LastSegment(p) ==
    LET q == StripTrailingSlashes(p)
    IN SubSeq(q, LastIndexOf(q, "/") + 1, Len(q))

\* path.extname(p)
ExtName(p) ==
    LET b == LastSegment(p)
        d == LastIndexOf(b, ".")
    IN IF d <= 1 \/ b = <<".", ".">> THEN <<>> ELSE SubSeq(b, d, Len(b))

\* path.basename(p, ext)
BaseName(p, ext) ==
    LET b == LastSegment(p)
    IN IF ext /= <<>> /\ b /= ext /\ EndsWith(b, ext)
       THEN SubSeq(b, 1, Len(b) - Len(ext))
       ELSE b

DrinksPrefix == <<"d", "r", "i", "n", "k", "s", "/">>
ThumbsPrefix == DrinksPrefix \o <<"_", "t", "h", "u", "m", "b", "s", "/">>
Suffix512 == <<"_", "5", "1", "2", ".", "p", "n", "g">>
Suffix1024 == <<"_", "1", "0", "2", "4", ".", "p", "n", "g">>
UnknownId == JStr(<<"u", "n", "k", "n", "o", "w", "n", " ", "i", "d">>)

(***************************************************************************)
(* Messages.  A message is the record of what the template string is       *)
(* built from: its fixed text (kind), the entry index, the                 *)
(* `drink.id || 'unknown id'` label, and the key and path it names.        *)
(***************************************************************************)
NoIndex == 0 - 1
NoLabel == JNull

Msg(kind, idx, label, key, path) ==
    [kind |-> kind, index |-> idx, label |-> label, key |-> key, path |-> path]

\* drink.id || 'unknown id'
Label(drink) == IF Truthy(Get(drink, "id")) THEN Get(drink, "id") ELSE UnknownId

\* What a run of checks adds: errors, warnings, and whether it threw
Outcome(e, w, t) == [errors |-> e, warnings |-> w, threw |-> t]
Nothing == Outcome(<<>>, <<>>, FALSE)
Err(m) == Outcome(<<m>>, <<>>, FALSE)
Warn(m) == Outcome(<<>>, <<m>>, FALSE)
Throw == Outcome(<<>>, <<>>, TRUE)

\* o1 followed by o2: nothing runs after a throw
Then(o1, o2) ==
    IF o1.threw THEN o1
    ELSE Outcome(o1.errors \o o2.errors, o1.warnings \o o2.warnings, o2.threw)

RECURSIVE Chain(_)
Chain(outs) == IF outs = <<>> THEN Nothing ELSE Then(Head(outs), Chain(Tail(outs)))

(***************************************************************************)
(* The per-entry rules (the forEach callback)                              *)
(***************************************************************************)
\* the id passes `!drink.id || typeof drink.id !== 'string' || drink.id.trim() === ''`
IdUsable(drink) ==
    LET id == Get(drink, "id")
    IN Truthy(id) /\ TypeOf(id) = "string" /\ Trim(Val(id)) /= <<>>

IdRule(drink, i, seen) ==
    LET id == Get(drink, "id")
    IN IF ~IdUsable(drink)
       THEN Err(Msg("id must be a non-empty string", i, NoLabel, "", JNull))
       ELSE Then(IF Val(id) \in seen
                 THEN Err(Msg("duplicate id", i, NoLabel, "", id))
                 ELSE Nothing,
                 IF ~SnakeCase(Val(id))
                 THEN Err(Msg("id must be in snake_case format", i, NoLabel, "", id))
                 ELSE Nothing)

\* SeenAfter with the id remembered only when it passes the format rule
SeenAfter_WellFormedOnly(drink, seen) ==
    IF IdUsable(drink) /\ SnakeCase(Val(Get(drink, "id")))
    THEN seen \cup {Val(Get(drink, "id"))}
    ELSE seen

\* seenIds after the callback has run on drink
SeenAfter(drink, seen) ==
    IF IdUsable(drink) THEN seen \cup {Val(Get(drink, "id"))} ELSE seen

NameRule(drink, i) ==
    LET name == Get(drink, "name")
    IN IF ~Truthy(name) \/ TypeOf(name) /= "string" \/ Trim(Val(name)) = <<>>
       THEN Err(Msg("name must be a non-empty string", i, Label(drink), "", JNull))
       ELSE Nothing

\* CategoryRule with the type test alone
CategoryRule_TypeOnly(drink, i) ==
    LET category == Get(drink, "category")
    IN IF TypeOf(category) /= "string"
       THEN Err(Msg("category must be a string", i, Label(drink), "", JNull))
       ELSE Nothing

CategoryRule(drink, i) ==
    LET category == Get(drink, "category")
    IN IF ~Truthy(category) \/ TypeOf(category) /= "string"
       THEN Err(Msg("category must be a string", i, Label(drink), "", JNull))
       ELSE Nothing

\* PopularityRule with the bounds themselves out of range
PopularityRule_OpenInterval(drink, i) ==
    LET popularity == Get(drink, "popularity")
    IN IF TypeOf(popularity) /= "number" \/ Val(popularity) <= 0
            \/ Val(popularity) >= 100
       THEN Err(Msg("popularity must be a number between 0 and 100", i,
                    Label(drink), "", JNull))
       ELSE Nothing

PopularityRule(drink, i) ==
    LET popularity == Get(drink, "popularity")
    IN IF TypeOf(popularity) /= "number" \/ Val(popularity) < 0
            \/ Val(popularity) > 100
       THEN Err(Msg("popularity must be a number between 0 and 100", i,
                    Label(drink), "", JNull))
       ELSE Nothing

AliasesRule(drink, i) ==
    LET aliases == Get(drink, "aliases")
    IN IF Truthy(aliases) /\ (~IsArray(aliases) \/ ~EveryString(aliases))
       THEN Err(Msg("aliases must be an array of strings if provided", i,
                    Label(drink), "", JNull))
       ELSE Nothing

ImagePathRule(drink, i) ==
    LET imagePath == Get(drink, "imagePath")
    IN IF ~Truthy(imagePath) \/ TypeOf(imagePath) /= "string"
       THEN Err(Msg("imagePath must be a string", i, Label(drink), "", JNull))
       ELSE Then(IF ~StartsWith(Val(imagePath), DrinksPrefix)
                 THEN Err(Msg("imagePath must start with drinks/", i,
                              Label(drink), "", JNull))
                 ELSE Nothing,
                 IF ~EndsWithPng(Val(imagePath))
                 THEN Warn(Msg("imagePath should be a .png file", i,
                               Label(drink), "", JNull))
                 ELSE Nothing)

\* the callback of variantKeys.forEach
VariantKeyRule(drink, i, variantKey) ==
    LET variantPath == Get(Get(drink, "imageVariants"), variantKey)
    IN IF TypeOf(variantPath) /= "string" \/ Trim(Val(variantPath)) = <<>>
       THEN Err(Msg("imageVariants.key must be a non-empty string", i,
                    Label(drink), variantKey, JNull))
       ELSE IF ~StartsWith(Val(variantPath), ThumbsPrefix)
       THEN Err(Msg("imageVariants.key must start with drinks/_thumbs/", i,
                    Label(drink), variantKey, JNull))
       ELSE Nothing

\* one `if (v && v !== expected) warnings.push(...)` line
ExpectedPathRule(drink, i, key, expected) ==
    LET v == Get(Get(drink, "imageVariants"), key)
    IN IF Truthy(v) /\ v /= JStr(expected)
       THEN Warn(Msg("path should be", i, Label(drink), key, JStr(expected)))
       ELSE Nothing

\* the README.md revision's check of imageVariants.thumb; startsWith is not a
\* function of a value that is not a string
ThumbRule(drink, i) ==
    LET thumb == Get(Get(drink, "imageVariants"), "thumb")
    IN IF ~Truthy(thumb) THEN Nothing
       ELSE IF TypeOf(thumb) /= "string" THEN Throw
       ELSE IF ~StartsWith(Val(thumb), ThumbsPrefix)
       THEN Warn(Msg("thumb should be under drinks/_thumbs/", i, Label(drink),
                     "thumb", JNull))
       ELSE Nothing

\* ExpectedPathsRule with the extension left on the base name
ExpectedPathsRule_KeepsExtension(rev, drink, i) ==
    LET imagePath == Get(drink, "imagePath")
    IN IF TypeOf(imagePath) /= "string" THEN Throw
       ELSE LET base == BaseName(Val(imagePath), <<>>)
                expected512 == ThumbsPrefix \o base \o Suffix512
                expected1024 == ThumbsPrefix \o base \o Suffix1024
            IN Chain(<<ExpectedPathRule(drink, i, "sm", expected512),
                       ExpectedPathRule(drink, i, "md", expected1024),
                       ExpectedPathRule(drink, i, "512", expected512),
                       ExpectedPathRule(drink, i, "1024", expected1024),
                       IF rev = "README.md" THEN ThumbRule(drink, i) ELSE Nothing>>)

\* path.basename(drink.imagePath, path.extname(drink.imagePath)), and the four
\* (five) comparisons after it; path.extname throws on a non-string argument
ExpectedPathsRule(rev, drink, i) ==
    LET imagePath == Get(drink, "imagePath")
    IN IF TypeOf(imagePath) /= "string" THEN Throw
       ELSE LET base == BaseName(Val(imagePath), ExtName(Val(imagePath)))
                expected512 == ThumbsPrefix \o base \o Suffix512
                expected1024 == ThumbsPrefix \o base \o Suffix1024
            IN Chain(<<ExpectedPathRule(drink, i, "sm", expected512),
                       ExpectedPathRule(drink, i, "md", expected1024),
                       ExpectedPathRule(drink, i, "512", expected512),
                       ExpectedPathRule(drink, i, "1024", expected1024),
                       IF rev = "README.md" THEN ThumbRule(drink, i) ELSE Nothing>>)

\* ImageVariantsRule with imageVariants taken for an optional field: nothing is
\* reported when the key is missing
ImageVariantsRule_Optional(rev, drink, i) ==
    LET imageVariants == Get(drink, "imageVariants")
        variantKeys == ObjectKeys(imageVariants)
    IN IF ~Defined(imageVariants) THEN Nothing
       ELSE IF ~Truthy(imageVariants) \/ TypeOf(imageVariants) /= "object"
       THEN Err(Msg("imageVariants must be an object", i, Label(drink), "", JNull))
       ELSE Chain(<<IF Len(variantKeys) = 0
                    THEN Err(Msg("imageVariants must contain at least one variant",
                                 i, Label(drink), "", JNull))
                    ELSE Nothing,
                    Chain([n \in 1..Len(variantKeys) |->
                              VariantKeyRule(drink, i, variantKeys[n])]),
                    ExpectedPathsRule(rev, drink, i)>>)

ImageVariantsRule(rev, drink, i) ==
    LET imageVariants == Get(drink, "imageVariants")
        variantKeys == ObjectKeys(imageVariants)
        has(k) == \E n \in 1..Len(variantKeys) : variantKeys[n] = k
        hasSmMd == has("sm") /\ has("md")
        hasNumeric == has("512") /\ has("1024")
    IN IF ~Truthy(imageVariants) \/ TypeOf(imageVariants) /= "object"
       THEN Err(Msg("imageVariants must be an object", i, Label(drink), "", JNull))
       ELSE Chain(<<IF Len(variantKeys) = 0
                    THEN Err(Msg("imageVariants must contain at least one variant",
                                 i, Label(drink), "", JNull))
                    ELSE Nothing,
                    IF ~hasSmMd /\ ~hasNumeric
                    THEN Warn(Msg("imageVariants should include keys {sm, md}", i,
                                  Label(drink), "", JNull))
                    ELSE Nothing,
                    Chain([n \in 1..Len(variantKeys) |->
                              VariantKeyRule(drink, i, variantKeys[n])]),
                    ExpectedPathsRule(rev, drink, i)>>)

\* validate-catalog.ts tests the value's truthiness and accepts only an array of
\* strings; README.md tests for undefined and accepts a boolean as well
ModifiersSupportedRule(rev, drink, i) ==
    LET ms == Get(drink, "modifiersSupported")
        isStrings == IsArray(ms) /\ EveryString(ms)
    IN IF rev = "README.md"
       THEN IF Tag(ms) /= "undefined" /\ TypeOf(ms) /= "boolean" /\ ~isStrings
            THEN Err(Msg("modifiersSupported must be boolean or an array of strings",
                         i, Label(drink), "", JNull))
            ELSE Nothing
       ELSE IF Truthy(ms) /\ ~isStrings
            THEN Err(Msg("modifiersSupported must be an array of strings if provided",
                         i, Label(drink), "", JNull))
            ELSE Nothing

(***************************************************************************)
(* The rules only the README.md revision has                               *)
(***************************************************************************)
\* typeof x.name !== 'string' || !x.name.trim()
NameMissing(x) ==
    TypeOf(Get(x, "name")) /= "string" \/ Trim(Val(Get(x, "name"))) = <<>>

\* v is not a number, or not finite, or negative (the input numbers are
\* integers: all are finite, and Number.isInteger holds of each)
NotNonNegativeNumber(v) == TypeOf(v) /= "number" \/ Val(v) < 0

\* the callback of drink.ingredients.forEach; ing.amount throws when ing is null
IngredientRule(drink, i, ing, ii) ==
    Then(IF ~Truthy(ing) \/ NameMissing(ing)
         THEN Err(Msg("ingredients[].name must be a non-empty string", i,
                      Label(drink), IndexKey(ii), JNull))
         ELSE Nothing,
         IF ReadThrows(ing) THEN Throw
         ELSE Chain(<<
            IF Defined(Get(ing, "amount")) /\ NotNonNegativeNumber(Get(ing, "amount"))
            THEN Err(Msg("ingredients[].amount must be a non-negative number", i,
                         Label(drink), IndexKey(ii), JNull))
            ELSE Nothing,
            IF Defined(Get(ing, "unit")) /\ TypeOf(Get(ing, "unit")) /= "string"
            THEN Err(Msg("ingredients[].unit must be a string", i, Label(drink),
                         IndexKey(ii), JNull))
            ELSE Nothing,
            IF Defined(Get(ing, "optional")) /\ TypeOf(Get(ing, "optional")) /= "boolean"
            THEN Err(Msg("ingredients[].optional must be a boolean", i,
                         Label(drink), IndexKey(ii), JNull))
            ELSE Nothing>>))

IngredientsRule(drink, i) ==
    LET ingredients == Get(drink, "ingredients")
    IN IF ~Defined(ingredients) THEN Nothing
       ELSE IF ~IsArray(ingredients)
       THEN Err(Msg("ingredients must be an array", i, Label(drink), "", JNull))
       ELSE Chain([n \in 1..Len(Val(ingredients)) |->
                      IngredientRule(drink, i, Val(ingredients)[n], n - 1)])

StepsRule(drink, i) ==
    LET steps == Get(drink, "steps")
    IN IF Defined(steps)
          /\ (~IsArray(steps)
              \/ ~\A n \in 1..Len(Val(steps)) :
                     /\ TypeOf(Val(steps)[n]) = "string"
                     /\ Trim(Val(Val(steps)[n])) /= <<>>)
       THEN Err(Msg("steps must be an array of non-empty strings", i,
                    Label(drink), "", JNull))
       ELSE Nothing

optString ==
    <<"technique", "glass", "ice", "rim", "strength", "difficulty", "themeColor",
      "accentColor">>
optNumber == <<"totalVolumeMl", "estimatedAbvPercent", "calories", "prepTimeSec">>
optBool == <<"isIBAOfficial", "isMocktail">>

OptStringRule(drink, i) ==
    Chain([n \in 1..Len(optString) |->
        LET v == Get(drink, optString[n])
        IN IF Defined(v) /\ Tag(v) /= "null" /\ TypeOf(v) /= "string"
           THEN Err(Msg("must be a string or null", i, Label(drink), optString[n],
                        JNull))
           ELSE Nothing])

OptNumberRule(drink, i) ==
    Chain([n \in 1..Len(optNumber) |->
        LET v == Get(drink, optNumber[n])
        IN IF Defined(v) /\ NotNonNegativeNumber(v)
           THEN Err(Msg("must be a non-negative number", i, Label(drink),
                        optNumber[n], JNull))
           ELSE Nothing])

OptBoolRule(drink, i) ==
    Chain([n \in 1..Len(optBool) |->
        LET v == Get(drink, optBool[n])
        IN IF Defined(v) /\ TypeOf(v) /= "boolean"
           THEN Err(Msg("must be a boolean", i, Label(drink), optBool[n], JNull))
           ELSE Nothing])

\* tags, sources, relatedDrinkIds, dominantColors: an array of strings if defined
StringArrayRule(drink, i, key) ==
    LET v == Get(drink, key)
    IN IF Defined(v) /\ (~IsArray(v) \/ ~EveryString(v))
       THEN Err(Msg("must be an array of strings", i, Label(drink), key, JNull))
       ELSE Nothing

\* v is defined, not null and not a string
NotStringOrNull(v) == Defined(v) /\ Tag(v) /= "null" /\ TypeOf(v) /= "string"

OriginRule(drink, i) ==
    LET o == Get(drink, "origin")
    IN IF ~Defined(o) THEN Nothing
       ELSE IF TypeOf(o) /= "object" \/ Tag(o) = "null"
       THEN Err(Msg("origin must be an object", i, Label(drink), "", JNull))
       ELSE Chain(<<
            IF Defined(Get(o, "country")) /\ TypeOf(Get(o, "country")) /= "string"
            THEN Err(Msg("origin.country must be a string", i, Label(drink), "",
                         JNull))
            ELSE Nothing,
            IF NotStringOrNull(Get(o, "city"))
            THEN Err(Msg("origin.city must be a string or null", i, Label(drink),
                         "", JNull))
            ELSE Nothing,
            IF Defined(Get(o, "year")) /\ Tag(Get(o, "year")) /= "null"
               /\ TypeOf(Get(o, "year")) /= "number"
            THEN Err(Msg("origin.year must be an integer or null", i, Label(drink),
                         "", JNull))
            ELSE Nothing,
            IF NotStringOrNull(Get(o, "creator"))
            THEN Err(Msg("origin.creator must be a string or null", i,
                         Label(drink), "", JNull))
            ELSE Nothing>>)

\* the callback of drink.garnish.forEach; g.prep throws when g is null
GarnishItemRule(drink, i, g, gi) ==
    Then(IF ~Truthy(g) \/ NameMissing(g)
         THEN Err(Msg("garnish[].name must be a non-empty string", i, Label(drink),
                      IndexKey(gi), JNull))
         ELSE Nothing,
         IF ReadThrows(g) THEN Throw
         ELSE IF Defined(Get(g, "prep")) /\ TypeOf(Get(g, "prep")) /= "string"
         THEN Err(Msg("garnish[].prep must be a string", i, Label(drink),
                      IndexKey(gi), JNull))
         ELSE Nothing)

GarnishRule(drink, i) ==
    LET garnish == Get(drink, "garnish")
    IN IF ~Defined(garnish) THEN Nothing
       ELSE IF ~IsArray(garnish)
       THEN Err(Msg("garnish must be an array", i, Label(drink), "", JNull))
       ELSE Chain([n \in 1..Len(Val(garnish)) |->
                      GarnishItemRule(drink, i, Val(garnish)[n], n - 1)])

\* the rules that follow modifiersSupported in the README.md revision
ExtendedRules(drink, i) ==
    Chain(<<IngredientsRule(drink, i),
            StepsRule(drink, i),
            OptStringRule(drink, i),
            OptNumberRule(drink, i),
            StringArrayRule(drink, i, "tags"),
            OriginRule(drink, i),
            StringArrayRule(drink, i, "sources"),
            StringArrayRule(drink, i, "relatedDrinkIds"),
            OptBoolRule(drink, i),
            GarnishRule(drink, i),
            StringArrayRule(drink, i, "dominantColors")>>)

(***************************************************************************)
(* The whole forEach callback on one element                               *)
(***************************************************************************)
\* typeof drink !== 'object' || drink === null
NotAnObject(drink) == TypeOf(drink) /= "object" \/ Tag(drink) = "null"

EntryOutcome(rev, drink, i, seen) ==
    IF NotAnObject(drink)
    THEN Err(Msg("must be an object", i, NoLabel, "", JNull))
    ELSE Chain(<<IdRule(drink, i, seen),
                 NameRule(drink, i),
                 CategoryRule(drink, i),
                 PopularityRule(drink, i),
                 AliasesRule(drink, i),
                 ImagePathRule(drink, i),
                 ImageVariantsRule(rev, drink, i),
                 ModifiersSupportedRule(rev, drink, i),
                 IF rev = "README.md" THEN ExtendedRules(drink, i) ELSE Nothing>>)

(***************************************************************************)
(* The filesystem cross-check and the flags cross-check                    *)
(***************************************************************************)
\* fs.existsSync(path.join(__dirname, '..', p)): the empty path is the catalog
\* root itself
ExistsSync(fs, p) == p = <<>> \/ p \in fs

\* the callback of Object.entries(drink.imageVariants).forEach; path.join throws
\* on a value that is not a string
VariantFileRule(fs, drink, entry) ==
    LET variant == entry[1]
        imagePath == entry[2]
    IN IF TypeOf(imagePath) /= "string" THEN Throw
       ELSE IF ~ExistsSync(fs, Val(imagePath))
       THEN Err(Msg("Image variant file not found", NoIndex, Get(drink, "id"),
                    variant, imagePath))
       ELSE Nothing

\* the callback of the second drinks.forEach; drink.id throws when drink is null
ImageFilesOutcome(fs, drink) ==
    IF ReadThrows(drink) THEN Throw
    ELSE IF ~Truthy(Get(drink, "id")) \/ ~Truthy(Get(drink, "imagePath"))
    THEN Nothing
    ELSE IF TypeOf(Get(drink, "imagePath")) /= "string" THEN Throw
    ELSE Then(IF ~ExistsSync(fs, Val(Get(drink, "imagePath")))
              THEN Err(Msg("Image file not found", NoIndex, Get(drink, "id"), "",
                           Get(drink, "imagePath")))
              ELSE Nothing,
              IF Truthy(Get(drink, "imageVariants"))
              THEN LET entries == ObjectEntries(Get(drink, "imageVariants"))
                   IN Chain([n \in 1..Len(entries) |->
                                VariantFileRule(fs, drink, entries[n])])
              ELSE Nothing)

\* the paths the callback hands to fs.existsSync
RECURSIVE StringsUntilThrow(_)
StringsUntilThrow(entries) ==
    IF entries = <<>> \/ TypeOf(Head(entries)[2]) /= "string" THEN {}
    ELSE {Val(Head(entries)[2])} \cup StringsUntilThrow(Tail(entries))

ImageFilesProbed(drink) ==
    IF ReadThrows(drink) \/ ~Truthy(Get(drink, "id"))
       \/ ~Truthy(Get(drink, "imagePath"))
       \/ TypeOf(Get(drink, "imagePath")) /= "string"
    THEN {}
    ELSE {Val(Get(drink, "imagePath"))}
         \cup (IF Truthy(Get(drink, "imageVariants"))
               THEN StringsUntilThrow(ObjectEntries(Get(drink, "imageVariants")))
               ELSE {})

\* ToggleOn with the comparison made case-insensitive
ToggleOn_AnyCase(e) ==
    /\ Tag(e) = "string"
    /\ [n \in 1..Len(Val(e)) |->
          CASE Val(e)[n] = "T" -> "t" [] Val(e)[n] = "R" -> "r"
            [] Val(e)[n] = "U" -> "u" [] Val(e)[n] = "E" -> "e"
            [] OTHER -> Val(e)[n]] = <<"t", "r", "u", "e">>

\* process.env.VALIDATE_IMAGE_FILES === 'true'
ToggleOn(e) == e = JStr(<<"t", "r", "u", "e">>)

\* FlagsOutcome with a missing flags.json reported like an unreadable one
FlagsOutcome_AbsentIsError(file) ==
    IF ~file.exists \/ ~file.parses
    THEN Err(Msg("Failed to parse flags.json", NoIndex, NoLabel, "", JNull))
    ELSE Nothing

\* FlagsOutcome with `flags.key &&` in the place of `'key' in flags &&`
FlagsOutcome_TruthyKeys(file) ==
    IF ~file.exists THEN Nothing
    ELSE IF ~file.parses
    THEN Err(Msg("Failed to parse flags.json", NoIndex, NoLabel, "", JNull))
    ELSE LET flags == file.value
         IN IF TypeOf(flags) /= "object" \/ Tag(flags) = "null"
            THEN Err(Msg("flags.json must be a JSON object", NoIndex, NoLabel, "",
                         JNull))
            ELSE Then(IF Truthy(Get(flags, "forceTextOnly"))
                         /\ TypeOf(Get(flags, "forceTextOnly")) /= "boolean"
                      THEN Err(Msg("flags.json: forceTextOnly must be a boolean",
                                   NoIndex, NoLabel, "forceTextOnly", JNull))
                      ELSE Nothing,
                      IF Truthy(Get(flags, "catalogVersion"))
                         /\ TypeOf(Get(flags, "catalogVersion")) /= "string"
                      THEN Err(Msg("flags.json: catalogVersion must be a string",
                                   NoIndex, NoLabel, "catalogVersion", JNull))
                      ELSE Nothing)

\* the body of `if (fs.existsSync(flagsPath))`; JSON.parse and readFileSync
\* throw inside the try
FlagsOutcome(file) ==
    IF ~file.exists THEN Nothing
    ELSE IF ~file.parses
    THEN Err(Msg("Failed to parse flags.json", NoIndex, NoLabel, "", JNull))
    ELSE LET flags == file.value
         IN IF TypeOf(flags) /= "object" \/ Tag(flags) = "null"
            THEN Err(Msg("flags.json must be a JSON object", NoIndex, NoLabel, "",
                         JNull))
            ELSE Then(IF HasKey(flags, "forceTextOnly")
                         /\ TypeOf(Get(flags, "forceTextOnly")) /= "boolean"
                      THEN Err(Msg("flags.json: forceTextOnly must be a boolean",
                                   NoIndex, NoLabel, "forceTextOnly", JNull))
                      ELSE Nothing,
                      IF HasKey(flags, "catalogVersion")
                         /\ TypeOf(Get(flags, "catalogVersion")) /= "string"
                      THEN Err(Msg("flags.json: catalogVersion must be a string",
                                   NoIndex, NoLabel, "catalogVersion", JNull))
                      ELSE Nothing)

(***************************************************************************)
(* The result object                                                       *)
(***************************************************************************)
EmptyResult == [success |-> TRUE, errors |-> <<>>, warnings |-> <<>>]

\* Push with the `result.success = false` after the push left out
Push_SuccessKept(r, o) ==
    [success |-> r.success,
     errors |-> r.errors \o o.errors,
     warnings |-> r.warnings \o o.warnings]

\* every result.errors.push is followed by result.success = false; a
\* result.warnings?.push is followed by nothing
Push(r, o) ==
    [success |-> IF o.errors = <<>> THEN r.success ELSE FALSE,
     errors |-> r.errors \o o.errors,
     warnings |-> r.warnings \o o.warnings]

(***************************************************************************)
(* validateCatalog as a state machine                                      *)
(***************************************************************************)
Inputs == <<revision, catalogFile, flagsFile, env, files>>

\* `drinks = JSON.parse(catalogContent)`: the parsed catalog
drinks == catalogFile.value

\* `if (!fs.existsSync(catalogPath))`
CatalogMissing ==
    /\ pc = "start"
    /\ ~catalogFile.exists
    /\ result' = Push(result, Err(Msg("drinks.json file not found", NoIndex,
                                      NoLabel, "", JNull)))
    /\ pc' = "returned"
    /\ UNCHANGED <<generator, Inputs, index, seenIds, checkImageFiles, probes, exitCode>>

\* the catch of readFileSync and JSON.parse
CatalogUnparsable ==
    /\ pc = "start"
    /\ catalogFile.exists
    /\ ~catalogFile.parses
    /\ result' = Push(result, Err(Msg("Failed to parse drinks.json", NoIndex,
                                      NoLabel, "", JNull)))
    /\ pc' = "returned"
    /\ UNCHANGED <<generator, Inputs, index, seenIds, checkImageFiles, probes, exitCode>>

\* CatalogNotArray with its `return result` left out
CatalogNotArray_NoReturn ==
    /\ pc = "start"
    /\ catalogFile.exists
    /\ catalogFile.parses
    /\ ~IsArray(catalogFile.value)
    /\ result' = Push(result, Err(Msg("drinks.json must contain an array",
                                      NoIndex, NoLabel, "", JNull)))
    /\ pc' = "flags"
    /\ UNCHANGED <<generator, Inputs, index, seenIds, checkImageFiles, probes, exitCode>>

\* `if (!Array.isArray(drinks))`
CatalogNotArray ==
    /\ pc = "start"
    /\ catalogFile.exists
    /\ catalogFile.parses
    /\ ~IsArray(catalogFile.value)
    /\ result' = Push(result, Err(Msg("drinks.json must contain an array",
                                      NoIndex, NoLabel, "", JNull)))
    /\ pc' = "returned"
    /\ UNCHANGED <<generator, Inputs, index, seenIds, checkImageFiles, probes, exitCode>>

\* the catalog is an array: `const seenIds = new Set()` and the first forEach
CatalogLoaded ==
    /\ pc = "start"
    /\ catalogFile.exists
    /\ catalogFile.parses
    /\ IsArray(catalogFile.value)
    /\ seenIds' = {}
    /\ index' = 0
    /\ pc' = "entries"
    /\ UNCHANGED <<generator, Inputs, result, checkImageFiles, probes, exitCode>>

\* one call of the first forEach's callback
ValidateEntry ==
    /\ pc = "entries"
    /\ index < Len(Val(drinks))
    /\ LET drink == Val(drinks)[index + 1]
           o == EntryOutcome(revision, drink, index, seenIds)
       IN /\ result' = Push(result, o)
          /\ seenIds' = IF NotAnObject(drink) THEN seenIds
                        ELSE SeenAfter(drink, seenIds)
          /\ pc' = IF o.threw THEN "threw" ELSE "entries"
    /\ index' = index + 1
    /\ UNCHANGED <<generator, Inputs, checkImageFiles, probes, exitCode>>

\* the first forEach is over: `const checkImageFiles = ...; if (checkImageFiles)`
ReadToggle ==
    /\ pc = "entries"
    /\ index = Len(Val(drinks))
    /\ checkImageFiles' = ToggleOn(env)
    /\ index' = 0
    /\ pc' = IF ToggleOn(env) /\ Len(Val(drinks)) > 0 THEN "images" ELSE "flags"
    /\ UNCHANGED <<generator, Inputs, seenIds, result, probes, exitCode>>

\* one call of the second forEach's callback
CheckImageFiles ==
    /\ pc = "images"
    /\ index < Len(Val(drinks))
    /\ LET drink == Val(drinks)[index + 1]
           o == ImageFilesOutcome(files, drink)
       IN /\ result' = Push(result, o)
          /\ probes' = probes \cup ImageFilesProbed(drink)
          /\ pc' = IF o.threw THEN "threw"
                   ELSE IF index + 1 = Len(Val(drinks)) THEN "flags"
                   ELSE "images"
    /\ index' = index + 1
    /\ UNCHANGED <<generator, Inputs, seenIds, checkImageFiles, exitCode>>

\* CheckFlags with the errors of flags.json put at the head of the list
CheckFlags_Prepends ==
    /\ pc = "flags"
    /\ result' = [Push(result, FlagsOutcome(flagsFile)) EXCEPT
                     !.errors = FlagsOutcome(flagsFile).errors \o result.errors]
    /\ pc' = "returned"
    /\ UNCHANGED <<generator, Inputs, index, seenIds, checkImageFiles, probes, exitCode>>

\* `if (fs.existsSync(flagsPath)) { ... }` and `return result`
CheckFlags ==
    /\ pc = "flags"
    /\ result' = Push(result, FlagsOutcome(flagsFile))
    /\ pc' = "returned"
    /\ UNCHANGED <<generator, Inputs, index, seenIds, checkImageFiles, probes, exitCode>>

(***************************************************************************)
(* main(): the report and the exit code                                    *)
(***************************************************************************)
\* the process has not ended
NoExit == 0 - 1

\* MainExit with a run that has warnings taken for a failed one
MainExit_WarningsFail ==
    /\ pc = "returned"
    /\ exitCode = NoExit
    /\ exitCode' = IF result.success /\ result.warnings = <<>> THEN 0 ELSE 1
    /\ UNCHANGED <<generator, Inputs, pc, index, seenIds, result, checkImageFiles, probes>>

\* `if (result.success) { ... process.exit(0) } else { ... process.exit(1) }`
MainExit ==
    /\ pc = "returned"
    /\ exitCode = NoExit
    /\ exitCode' = IF result.success THEN 0 ELSE 1
    /\ UNCHANGED <<generator, Inputs, pc, index, seenIds, result, checkImageFiles, probes>>

\* an exception that left validateCatalog is caught nowhere in main: the
\* runtime prints it and ends the process with exit code 1
UncaughtException ==
    /\ pc = "threw"
    /\ exitCode = NoExit
    /\ exitCode' = 1
    /\ UNCHANGED <<generator, Inputs, pc, index, seenIds, result, checkImageFiles, probes>>

Next ==
    \/ CatalogMissing
    \/ CatalogUnparsable
    \/ CatalogNotArray
    \/ CatalogLoaded
    \/ ValidateEntry
    \/ ReadToggle
    \/ CheckImageFiles
    \/ CheckFlags
    \/ MainExit
    \/ UncaughtException

(***************************************************************************)
(* The thumbnail generator (unnamed/part_000)                              *)
(***************************************************************************)
\* /\.(png|jpg|jpeg|webp)$/i.test(f)
IsSourceImage(f) ==
    LET low == [i \in 1..Len(f) |-> ToLower(f[i])]
    IN \E ext \in {<<".", "p", "n", "g">>, <<".", "j", "p", "g">>,
                    <<".", "j", "p", "e", "g">>, <<".", "w", "e", "b", "p">>} :
          EndsWith(low, ext)

\* f.replace(/\.[^.]+$/, ''): the name without its last dot and what follows,
\* when something follows the last dot
StripExtension(f) ==
    LET d == LastIndexOf(f, ".")
    IN IF d = 0 \/ d = Len(f) THEN f ELSE SubSeq(f, 1, d - 1)

\* the widths of `targets`, in order
Widths == <<512, 1024>>

\* the file name of target t of source f inside drinks/_thumbs
OutName(f, t) ==
    StripExtension(f) \o (IF Widths[t] = 512 THEN Suffix512 ELSE Suffix1024)

\* OutNames with the 1024 target put before the 512 target
OutNames_WideFirst(f) == <<OutName(f, 2), OutName(f, 1)>>

\* the `out` of the two targets of source f, in the order of `targets`
OutNames(f) == <<OutName(f, 1), OutName(f, 2)>>

\* what sharp(input).resize({width}).png() writes: a function of the source
\* file and the width
Resized(f, out) == <<f, IF out = OutName(f, 1) THEN 512 ELSE 1024>>

\* the content of a file that was in drinks/_thumbs before the first run
Stale == <<<<>>, 0>>

\* nothing has been printed by the last line of main
NoReport == 0 - 1

ThumbsDirName == <<"_", "t", "h", "u", "m", "b", "s">>

\* fs.readdirSync(srcDir) after fs.mkdirSync(outDir): the names in drinks/,
\* _thumbs among them
ReadDir(l) ==
    IF \E n \in 1..Len(l) : l[n] = ThumbsDirName THEN l
    ELSE <<ThumbsDirName>> \o l

\* the generator is not the process that runs
GeneratorIdle ==
    /\ listing = <<>>
    /\ unreadable = {}
    /\ sharpInstalled = FALSE
    /\ thumbs = <<>>
    /\ gpc = "idle"
    /\ sources = <<>>
    /\ fileIndex = 0
    /\ targetIndex = 0
    /\ exists = FALSE
    /\ created = 0
    /\ inFlight = {}
    /\ wrote = <<>>
    /\ reported = NoReport
    /\ run = 0
    /\ afterFirstRun = <<>>
    /\ beforeRun = <<>>

\* ensureSharp: require.resolve throws, the catch calls process.exit(1)
SharpMissing ==
    /\ gpc = "start"
    /\ ~sharpInstalled
    /\ exitCode' = 1
    /\ gpc' = "exited"
    /\ UNCHANGED <<validator, listing, unreadable, sharpInstalled, thumbs,
                   sources, fileIndex, targetIndex, exists, created, inFlight,
                   wrote, reported, run, afterFirstRun, beforeRun>>

\* mkdirSync, readdirSync and the filter; `return` on an empty list, else
\* `let created = 0` and the first iteration
ListSources ==
    /\ gpc = "start"
    /\ sharpInstalled
    /\ sources' = SelectSeq(ReadDir(listing), IsSourceImage)
    /\ IF sources' = <<>>
       THEN /\ gpc' = "done"
            /\ exitCode' = 0
            /\ UNCHANGED <<fileIndex, targetIndex>>
       ELSE /\ gpc' = "check"
            /\ fileIndex' = 1
            /\ targetIndex' = 1
            /\ UNCHANGED exitCode
    /\ created' = 0
    /\ UNCHANGED <<validator, listing, unreadable, sharpInstalled, thumbs,
                   exists, inFlight, wrote, reported, run, afterFirstRun,
                   beforeRun>>

\* BeginResize with every output taken for a new file
BeginResize_NeverExists ==
    /\ gpc = "check"
    /\ exists' = FALSE
    /\ inFlight' = inFlight
                    \cup {<<sources[fileIndex],
                            OutNames(sources[fileIndex])[targetIndex]>>}
    /\ gpc' = "await"
    /\ UNCHANGED <<validator, exitCode, listing, unreadable, sharpInstalled,
                   thumbs, sources, fileIndex, targetIndex, created, wrote,
                   reported, run, afterFirstRun, beforeRun>>

\* `const exists = fs.existsSync(t.out)` and the call of sharp(...).toFile,
\* up to the await
BeginResize ==
    /\ gpc = "check"
    /\ exists' = (OutNames(sources[fileIndex])[targetIndex] \in DOMAIN thumbs)
    /\ inFlight' = inFlight
                    \cup {<<sources[fileIndex],
                            OutNames(sources[fileIndex])[targetIndex]>>}
    /\ gpc' = "await"
    /\ UNCHANGED <<validator, exitCode, listing, unreadable, sharpInstalled,
                   thumbs, sources, fileIndex, targetIndex, created, wrote,
                   reported, run, afterFirstRun, beforeRun>>

\* the awaited promise is fulfilled: the file is written; `if (!exists)
\* created++`, the 'Wrote' line, and the step to the next target or file
ResizeDone ==
    /\ gpc = "await"
    /\ sources[fileIndex] \notin unreadable
    /\ LET f == sources[fileIndex]
           out == OutNames(f)[targetIndex]
       IN /\ thumbs' = [n \in DOMAIN thumbs \cup {out} |->
                           IF n = out THEN Resized(f, out) ELSE thumbs[n]]
          /\ inFlight' = inFlight \ {<<f, out>>}
          /\ wrote' = Append(wrote, out)
    /\ created' = IF exists THEN created ELSE created + 1
    /\ IF targetIndex < Len(Widths)
       THEN /\ targetIndex' = targetIndex + 1
            /\ gpc' = "check"
            /\ UNCHANGED fileIndex
       ELSE IF fileIndex < Len(sources)
       THEN /\ fileIndex' = fileIndex + 1
            /\ targetIndex' = 1
            /\ gpc' = "check"
       ELSE /\ gpc' = "report"
            /\ UNCHANGED <<fileIndex, targetIndex>>
    /\ UNCHANGED <<validator, exitCode, listing, unreadable, sharpInstalled,
                   sources, exists, reported, run, afterFirstRun, beforeRun>>

\* the awaited promise is rejected (sharp cannot read the input; nothing is
\* written): main rejects and `.catch` calls process.exit(1)
ResizeFailed ==
    /\ gpc = "await"
    /\ sources[fileIndex] \in unreadable
    /\ inFlight' = inFlight \ {<<sources[fileIndex],
                                  OutNames(sources[fileIndex])[targetIndex]>>}
    /\ exitCode' = 1
    /\ gpc' = "exited"
    /\ UNCHANGED <<validator, listing, unreadable, sharpInstalled, thumbs,
                   sources, fileIndex, targetIndex, exists, created, wrote,
                   reported, run, afterFirstRun, beforeRun>>

\* 'Done. Generated or updated thumbnails. New files: ${created}.'
Report ==
    /\ gpc = "report"
    /\ reported' = created
    /\ exitCode' = 0
    /\ gpc' = "done"
    /\ UNCHANGED <<validator, listing, unreadable, sharpInstalled, thumbs,
                   sources, fileIndex, targetIndex, exists, created, inFlight,
                   wrote, run, afterFirstRun, beforeRun>>

\* the script is run a second time over the same drinks/ directory
RunAgain ==
    /\ gpc \in {"done", "exited"}
    /\ run = 1
    /\ run' = 2
    /\ afterFirstRun' = thumbs
    /\ beforeRun' = thumbs
    /\ gpc' = "start"
    /\ exitCode' = NoExit
    /\ sources' = <<>>
    /\ fileIndex' = 0
    /\ targetIndex' = 0
    /\ exists' = FALSE
    /\ created' = 0
    /\ wrote' = <<>>
    /\ reported' = NoReport
    /\ UNCHANGED <<validator, listing, unreadable, sharpInstalled, thumbs,
                   inFlight>>

GeneratorNext ==
    \/ SharpMissing
    \/ ListSources
    \/ BeginResize
    \/ ResizeDone
    \/ ResizeFailed
    \/ Report
    \/ RunAgain

(***************************************************************************)
(* The inputs                                                              *)
(***************************************************************************)
MaxEntries == 2
MaxIdEntries == 3

Revisions == {"validate-catalog.ts", "README.md"}

SeqsUpTo(S, n) == UNION {[1..k -> S] : k \in 0..n}

Absent == [exists |-> FALSE, parses |-> FALSE, value |-> JNull]
Garbage == [exists |-> TRUE, parses |-> FALSE, value |-> JNull]
Parsed(v) == [exists |-> TRUE, parses |-> TRUE, value |-> v]

Png == <<".", "p", "n", "g">>
ImageOf(base) == JStr(DrinksPrefix \o base \o Png)
Thumb512(base) == JStr(ThumbsPrefix \o base \o Suffix512)
Thumb1024(base) == JStr(ThumbsPrefix \o base \o Suffix1024)
VariantsOf(base) == JObj(<< <<"sm", Thumb512(base)>>, <<"md", Thumb1024(base)>> >>)

\* an entry object; a field given as Undefined is left out
Drink(id, name, category, popularity, imagePath, imageVariants, more) ==
    JObj(SelectSeq(<< <<"id", id>>, <<"name", name>>, <<"category", category>>,
                      <<"popularity", popularity>>, <<"imagePath", imagePath>>,
                      <<"imageVariants", imageVariants>> >> \o more,
                   LAMBDA kv : kv[2] /= Undefined))

AName == JStr(<<"A">>)
ACategory == JStr(<<"c">>)
APopularity == JNum(50)

\* an entry with the given values for four of its fields
DrinkWith(id, name, imagePath, imageVariants, more) ==
    Drink(id, name, ACategory, APopularity, imagePath, imageVariants, more)

GoodDrink(base) ==
    DrinkWith(JStr(base), AName, ImageOf(base), VariantsOf(base), <<>>)

NoVariantsDrink ==
    DrinkWith(JStr(<<"c">>), AName, ImageOf(<<"c">>), Undefined, <<>>)
NoImagePathDrink ==
    DrinkWith(JStr(<<"a">>), AName, Undefined, VariantsOf(<<"a">>), <<>>)
NumberImagePathDrink ==
    DrinkWith(JStr(<<"a">>), AName, JNum(5), Undefined, <<>>)
BadNameDrink ==
    DrinkWith(JStr(<<"b">>), JStr(<<" ">>), ImageOf(<<"b">>),
              VariantsOf(<<"b">>), <<>>)
NullIngredientDrink ==
    DrinkWith(JStr(<<"a">>), AName, ImageOf(<<"a">>), VariantsOf(<<"a">>),
              << <<"ingredients", JArr(<<JNull>>)>> >>)
NullGarnishDrink ==
    DrinkWith(JStr(<<"a">>), AName, ImageOf(<<"a">>), VariantsOf(<<"a">>),
              << <<"garnish", JArr(<<JNull>>)>> >>)
JpgDrink ==
    DrinkWith(JStr(<<"b">>), AName,
              JStr(DrinksPrefix \o <<"b", ".", "j", "p", "g">>),
              VariantsOf(<<"b">>), <<>>)
NoIdDrink ==
    DrinkWith(Undefined, AName, ImageOf(<<"a">>), VariantsOf(<<"a">>), <<>>)
BlankIdDrink ==
    DrinkWith(JStr(<<" ", " ">>), AName, ImageOf(<<"a">>),
              VariantsOf(<<"a">>), <<>>)
BadFormatIdDrink ==
    DrinkWith(JStr(<<"A", "-", "b">>), AName, ImageOf(<<"a">>),
              VariantsOf(<<"a">>), <<>>)
NumberIdDrink ==
    DrinkWith(JNum(5), AName, ImageOf(<<"a">>), VariantsOf(<<"a">>), <<>>)

Entries ==
    {GoodDrink(<<"a">>), GoodDrink(<<"b">>), NoVariantsDrink, NoImagePathDrink,
     NumberImagePathDrink, BadNameDrink, NullIngredientDrink, NullGarnishDrink,
     JpgDrink, NoIdDrink, JNull}

IdEntries ==
    {GoodDrink(<<"a">>), BlankIdDrink, BadFormatIdDrink, NoIdDrink, NumberIdDrink,
     NoImagePathDrink}

\* the values tried for the optional keys modifiersSupported and aliases
OptionalValues ==
    {JBool(TRUE), JBool(FALSE), JNull, JNum(0), JNum(1), JStr(<<>>),
     JStr(<<"x">>), JObj(<<>>), JArr(<<>>), JArr(<<JStr(<<"x">>)>>),
     JArr(<<JStr(<<"x">>), JNum(1)>>)}

ModifiersDrinks ==
    {DrinkWith(JStr(<<"a">>), AName, ImageOf(<<"a">>), VariantsOf(<<"a">>),
               << <<"modifiersSupported", v>> >>) : v \in OptionalValues}

\* one more entry after a valid one, and that entry alone
AfterGood(entries) ==
    {Parsed(JArr(<<e>>)) : e \in entries}
    \cup {Parsed(JArr(<<GoodDrink(<<"b">>), e>>)) : e \in entries}

\* imagePath values whose basename and extension differ in shape
Margarita == <<"m", "a", "r", "g", "a", "r", "i", "t", "a">>

ImagePathValues ==
    {ImageOf(Margarita), ImageOf(<<"a", ".", "b">>), JStr(DrinksPrefix \o <<"a">>),
     JStr(DrinksPrefix \o Png), JStr(DrinksPrefix \o <<"x", "/", "a", ".", "P", "N", "G">>),
     JStr(<<"a", ".", "j", "p", "g", "/">>), JStr(<<>>)}

\* imageVariants objects around the thumbnails of base b: right paths, the
\* paths of another base w, and values that are not paths
VariantsAround(b, w) ==
    {JObj(<< <<"sm", Thumb512(b)>>, <<"md", Thumb1024(b)>> >>),
     JObj(<< <<"sm", Thumb512(w)>>, <<"md", Thumb1024(b)>> >>),
     JObj(<< <<"512", Thumb512(b)>>, <<"1024", Thumb1024(w)>> >>),
     JObj(<< <<"sm", JStr(<<>>)>>, <<"md", Thumb1024(b)>> >>),
     JObj(<< <<"sm", JNull>>, <<"md", Thumb1024(w)>> >>),
     JObj(<< <<"sm", JNum(5)>>, <<"md", JNum(0)>> >>),
     JObj(<< <<"512", Thumb512(w)>>, <<"1024", Thumb1024(b)>>,
             <<"sm", Thumb512(w)>>, <<"md", Thumb1024(w)>> >>),
     JObj(<< <<"sm", ImageOf(b)>>, <<"md", Thumb1024(b)>> >>),
     JObj(<< <<"md", Thumb1024(w)>> >>)}

VariantsDrinks ==
    UNION {{DrinkWith(JStr(<<"a">>), AName, p, v, <<>>) :
               v \in VariantsAround(BaseName(Val(p), ExtName(Val(p))),
                                    <<"m", "a", "r", "g">>)} :
           p \in ImagePathValues}

\* ids in and out of the format a-z, 0-9, _
MyDrink1 == <<"m", "y", "_", "d", "r", "i", "n", "k", "_", "1">>
MyDashDrink == <<"M", "y", "-", "D", "r", "i", "n", "k">>

IdStrings ==
    {MyDrink1, MyDashDrink, <<"a", " ", "b">>, <<"a", "-", "b">>, <<"a", "B">>,
     <<"a", "_", "1">>, <<"_">>, <<"7">>, <<" ", "a">>, <<"a", " ">>,
     <<"a", "\n">>, <<"a", ".", "b">>, <<" ">>, <<"\t", " ">>, <<>>}

IdDrink(id) ==
    DrinkWith(JStr(id), AName, ImageOf(<<"a">>), VariantsOf(<<"a">>), <<>>)

IdDrinks == {IdDrink(id) : id \in IdStrings}

\* popularity on and around the ends of the range, and not a number
PopularityValues ==
    {JNum(0), JNum(100), JNum(0 - 1), JNum(101), JNum(1), JNum(99), JNum(1000),
     JNum(0 - 100), Undefined, JNull, JBool(TRUE), JStr(<<"5", "0">>),
     JStr(<<>>), JArr(<<JNum(50)>>)}

PopularityDrink(v) ==
    Drink(JStr(<<"a">>), AName, ACategory, v, ImageOf(<<"a">>),
          VariantsOf(<<"a">>), <<>>)

PopularityDrinks == {PopularityDrink(v) : v \in PopularityValues}

AliasesDrinks ==
    {DrinkWith(JStr(<<"a">>), AName, ImageOf(<<"a">>), VariantsOf(<<"a">>),
               << <<"aliases", v>> >>) : v \in OptionalValues}

\* category as a string, empty or not, as another value, and missing
CategoryValues ==
    {JStr(<<"c">>), JStr(<<>>), JStr(<<" ">>), JStr(<<"C", " ", "d">>), Undefined,
     JNull, JBool(TRUE), JBool(FALSE), JNum(0), JNum(1), JArr(<<JStr(<<"c">>)>>),
     JObj(<<>>)}

CategoryDrink(v) ==
    Drink(JStr(<<"a">>), AName, v, APopularity, ImageOf(<<"a">>),
          VariantsOf(<<"a">>), <<>>)

CategoryDrinks == {CategoryDrink(v) : v \in CategoryValues}

FieldEntries ==
    ModifiersDrinks \cup VariantsDrinks \cup IdDrinks \cup PopularityDrinks
    \cup AliasesDrinks \cup CategoryDrinks

FieldCatalogFiles ==
    AfterGood(FieldEntries)
    \cup {Parsed(JArr(<<IdDrink(MyDrink1), IdDrink(MyDashDrink)>>)),
          Parsed(JArr(<<PopularityDrink(JNum(0)), PopularityDrink(JNum(100)),
                        PopularityDrink(JNum(0 - 1)), PopularityDrink(JNum(101))>>)),
          Parsed(JArr(<<CategoryDrink(JStr(<<>>)), CategoryDrink(JStr(<<" ">>))>>))}

\* array elements that are not objects, alone and beside a valid entry
NonObjects == {JNull, JNum(5), JNum(0), JStr(<<"a">>), JStr(<<>>), JBool(TRUE), JBool(FALSE)}

NonObjectCatalogFiles ==
    {Parsed(JArr(a)) :
        a \in UNION {{<<x>>, <<x, GoodDrink(<<"a">>)>>, <<GoodDrink(<<"b">>), x>>,
                      <<x, x>>} : x \in NonObjects}}

\* a catalog with findings in every phase: warnings for the first and third
\* entry, errors for the second and third, files to miss
MixedCatalogFile == Parsed(JArr(<<JpgDrink, BadNameDrink, JpgDrink>>))

NonArrays == {JObj(<<>>), JNull, JStr(<<"a">>)}

StructuralFailures == {Absent, Garbage} \cup {Parsed(v) : v \in NonArrays}

CatalogFiles ==
    StructuralFailures \cup {Parsed(JArr(a)) : a \in SeqsUpTo(Entries, MaxEntries)}

IdCatalogFiles ==
    StructuralFailures \cup {Parsed(JArr(a)) : a \in SeqsUpTo(IdEntries, MaxIdEntries)}

SmallCatalogFiles ==
    StructuralFailures
    \cup {Parsed(JArr(a)) : a \in {<<>>, <<GoodDrink(<<"a">>)>>, <<NoVariantsDrink>>,
                                   <<NoImagePathDrink>>, <<JpgDrink>>}}

\* flags.json as an object: each recognized key absent or with one of a few
\* values, and an unrecognized key absent or present
FlagValues == {Undefined, JBool(FALSE), JStr(<<"1">>), JNum(1), JNull}

FlagsObject(forceTextOnly, catalogVersion, other) ==
    JObj(SelectSeq(<< <<"forceTextOnly", forceTextOnly>>,
                      <<"catalogVersion", catalogVersion>>,
                      <<"theme", other>> >>,
                   LAMBDA kv : kv[2] /= Undefined))

FlagsObjects ==
    {FlagsObject(f, c, o) : f \in FlagValues, c \in FlagValues,
                            o \in {Undefined, JNum(5)}}

FlagsFiles ==
    {Absent, Garbage, Parsed(JNull), Parsed(JNum(1)), Parsed(JArr(<<>>))}
    \cup {Parsed(v) : v \in FlagsObjects}

FewFlagsFiles ==
    {Absent, Garbage, Parsed(FlagsObject(JStr(<<"1">>), Undefined, Undefined)),
     Parsed(FlagsObject(JBool(FALSE), JStr(<<"1">>), JNum(5)))}

\* no flags.json, and a well-typed one with an unrecognized key
TwoFlagsFiles ==
    {Absent, Parsed(FlagsObject(JBool(FALSE), JStr(<<"1">>), JNum(5)))}

\* process.env.VALIDATE_IMAGE_FILES
EnvValues ==
    {Undefined, JStr(<<"t", "r", "u", "e">>), JStr(<<"T", "R", "U", "E">>),
     JStr(<<"1">>), JStr(<<>>), JStr(<<"t", "r", "u", "e", " ">>)}

FewEnvValues == {Undefined, JStr(<<"t", "r", "u", "e">>)}

\* every path the sample entries name
SamplePaths ==
    UNION {{Val(ImageOf(b)), Val(Thumb512(b)), Val(Thumb1024(b))} :
              b \in {<<"a">>, <<"b">>, <<"c">>}}
    \cup {DrinksPrefix \o <<"b", ".", "j", "p", "g">>}

FileSystems ==
    {SamplePaths, {}, {Val(ImageOf(<<"a">>)), Val(Thumb512(<<"a">>))}}

(***************************************************************************)
(* Initial states: the run is about to start on one choice of the inputs   *)
(***************************************************************************)
Start(rev, cat, fl, e, fs) ==
    /\ revision = rev
    /\ catalogFile = cat
    /\ flagsFile = fl
    /\ env = e
    /\ files = fs
    /\ pc = "start"
    /\ index = 0
    /\ seenIds = {}
    /\ result = EmptyResult
    /\ checkImageFiles = FALSE
    /\ probes = {}
    /\ exitCode = NoExit
    /\ GeneratorIdle

Init ==
    \E rev \in Revisions :
        \/ \E cat \in CatalogFiles, fl \in TwoFlagsFiles :
              \/ Start(rev, cat, fl, Undefined, SamplePaths)
              \/ \E fs \in {SamplePaths, {}} :
                    Start(rev, cat, fl, JStr(<<"t", "r", "u", "e">>), fs)
        \/ \E cat \in IdCatalogFiles, e \in FewEnvValues :
              Start(rev, cat, Absent, e, SamplePaths)
        \/ \E cat \in SmallCatalogFiles, fl \in FlagsFiles, fs \in {SamplePaths, {}} :
              Start(rev, cat, fl, JStr(<<"t", "r", "u", "e">>), fs)
        \/ \E cat \in SmallCatalogFiles, fl \in FewFlagsFiles, e \in EnvValues,
              fs \in FileSystems : Start(rev, cat, fl, e, fs)
        \/ \E cat \in FieldCatalogFiles :
              Start(rev, cat, Absent, Undefined, SamplePaths)
        \/ \E cat \in NonObjectCatalogFiles, e \in FewEnvValues,
              fs \in {SamplePaths, {}} : Start(rev, cat, Absent, e, fs)
        \/ \E fl \in FewFlagsFiles, e \in FewEnvValues, fs \in FileSystems :
              Start(rev, MixedCatalogFile, fl, e, fs)

Spec == Init /\ [][Next]_vars

(***************************************************************************)
(* The generator's inputs and initial states                               *)
(***************************************************************************)
MaxListing == 3

APng == <<"a", ".", "p", "n", "g">>
AJpg == <<"a", ".", "j", "p", "g">>
BPng == <<"b", ".", "P", "N", "G">>
CWebp == <<"c", ".", "d", ".", "w", "e", "b", "p">>
Notes == <<"n", ".", "t", "x", "t">>
ThumbsDir == ThumbsDirName

\* the names readdirSync can list
Names == {APng, AJpg, BPng, CWebp, Notes, ThumbsDir}

\* a directory lists no name twice
Listings ==
    {l \in SeqsUpTo(Names, MaxListing) :
        \A m, n \in 1..Len(l) : m /= n => l[m] /= l[n]}

\* what drinks/_thumbs holds before the first run
StaleThumbs(names) == [n \in names |-> Stale]

ThumbsBefore ==
    {StaleThumbs({}), StaleThumbs({OutName(APng, 1)}),
     StaleThumbs({OutName(APng, 1), OutName(APng, 2), OutName(BPng, 2),
                  <<"z", ".", "p", "n", "g">>})}

\* the validator is not the process that runs
ValidatorIdle ==
    /\ revision = "validate-catalog.ts"
    /\ catalogFile = Absent
    /\ flagsFile = Absent
    /\ env = Undefined
    /\ files = {}
    /\ pc = "idle"
    /\ index = 0
    /\ seenIds = {}
    /\ result = EmptyResult
    /\ checkImageFiles = FALSE
    /\ probes = {}

GeneratorStart(l, bad, installed, before) ==
    /\ ValidatorIdle
    /\ exitCode = NoExit
    /\ listing = l
    /\ unreadable = bad
    /\ sharpInstalled = installed
    /\ thumbs = before
    /\ gpc = "start"
    /\ sources = <<>>
    /\ fileIndex = 0
    /\ targetIndex = 0
    /\ exists = FALSE
    /\ created = 0
    /\ inFlight = {}
    /\ wrote = <<>>
    /\ reported = NoReport
    /\ run = 1
    /\ afterFirstRun = <<>>
    /\ beforeRun = before

GeneratorInit ==
    \/ \E l \in Listings, bad \in {{}, {AJpg}, {BPng}}, before \in ThumbsBefore :
          GeneratorStart(l, bad, TRUE, before)
    \/ \E l \in {<<>>, <<APng>>}, before \in ThumbsBefore :
          GeneratorStart(l, {}, FALSE, before)

GeneratorSpec == GeneratorInit /\ [][GeneratorNext]_vars

(***************************************************************************)
(* Properties                                                              *)
(***************************************************************************)
Range(q) == {q[n] : n \in 1..Len(q)}

\* validateCatalog has stopped: it returned its result, or an exception left it
Returned == pc = "returned"
Threw == pc = "threw"

\* drinks.json is missing, or is not JSON, or is not a JSON array
StructuralFailure ==
    ~catalogFile.exists \/ ~catalogFile.parses \/ ~IsArray(catalogFile.value)

\* the elements of the catalog array
CatalogEntries == IF StructuralFailure THEN <<>> ELSE Val(catalogFile.value)

FlagsKinds ==
    {"Failed to parse flags.json", "flags.json must be a JSON object",
     "flags.json: forceTextOnly must be a boolean",
     "flags.json: catalogVersion must be a string"}
ImageFileKinds == {"Image file not found", "Image variant file not found"}
StructuralKinds ==
    {"drinks.json file not found", "Failed to parse drinks.json",
     "drinks.json must contain an array"}

\* C1: in every state of a run, and so in the result returned, success is true
\* exactly when the error list is empty; warnings alone leave success true.
C1_SuccessIffNoErrors == result.success <=> (result.errors = <<>>)

\* a run has returned with warnings as its only findings
C1_Witness ==
    /\ Returned
    /\ result.warnings /= <<>>
    /\ result.errors = <<>>
    /\ result.success

\* the findings of entry j that do not depend on any other field or entry
IndependentFindings(rev, drink, i) ==
    IF NotAnObject(drink) THEN EntryOutcome(rev, drink, i, {}).errors
    ELSE Chain(<<NameRule(drink, i), CategoryRule(drink, i),
                 PopularityRule(drink, i), AliasesRule(drink, i),
                 ImagePathRule(drink, i),
                 ModifiersSupportedRule(rev, drink, i)>>).errors

\* C2: once the run over a JSON array has stopped, every entry's independent
\* violations are in the error list, whatever was wrong in an earlier entry or
\* in another field of the same entry.
C2_AllViolationsAccumulated ==
    (Returned \/ Threw) =>
        \A j \in 1..Len(CatalogEntries) :
            Range(IndependentFindings(revision, CatalogEntries[j], j - 1))
                \subseteq Range(result.errors)

\* C3: no exception escapes validateCatalog: a run never stops by throwing.
C3_NoExceptionEscapes == ~Threw

\* C4: after a structural failure the run goes from its start straight to its
\* return, with exactly one error (a structural one), no warning and
\* success = false; no entry is visited, the toggle is not read, no image file
\* is looked up and flags.json adds nothing.
C4_StructuralFailFast ==
    StructuralFailure =>
        /\ pc \in {"start", "returned"}
        /\ index = 0
        /\ seenIds = {}
        /\ probes = {}
        /\ ~checkImageFiles
        /\ Returned =>
              /\ Len(result.errors) = 1
              /\ result.errors[1].kind \in StructuralKinds
              /\ result.warnings = <<>>
              /\ ~result.success

\* a run on a catalog that is not an array has returned while flags.json is
\* itself unparsable
C4_Witness ==
    /\ Returned
    /\ catalogFile.exists
    /\ catalogFile.parses
    /\ ~IsArray(catalogFile.value)
    /\ flagsFile = Garbage
    /\ Len(result.errors) = 1

\* the number of elements the first forEach's callback has been called on
Scanned ==
    IF pc = "start" \/ StructuralFailure THEN 0
    ELSE IF pc = "entries" \/ (Threw /\ ~checkImageFiles) THEN index
    ELSE Len(CatalogEntries)

\* the number of duplicate-id errors reported for the entry at position j
DuplicateErrors(j) ==
    Cardinality({n \in 1..Len(result.errors) :
                    /\ result.errors[n].kind = "duplicate id"
                    /\ result.errors[n].index = j - 1})

\* entry j is an object whose id is a string that is not empty
HasNonEmptyStringId(j) ==
    /\ ~NotAnObject(CatalogEntries[j])
    /\ Tag(Get(CatalogEntries[j], "id")) = "string"
    /\ Val(Get(CatalogEntries[j], "id")) /= <<>>

\* entry j is an object whose id is a string with a character that is not
\* white space
HasNonBlankStringId(j) ==
    /\ HasNonEmptyStringId(j)
    /\ \E n \in 1..Len(Val(Get(CatalogEntries[j], "id"))) :
          Val(Get(CatalogEntries[j], "id"))[n] \notin WhiteSpace

SameId(i, j) == Get(CatalogEntries[i], "id") = Get(CatalogEntries[j], "id")

\* C5 as stated: among the entries scanned so far, an entry with a non-empty
\* string id has one duplicate-id error if an earlier entry has the same
\* non-empty string id and none otherwise, and no other entry has any.
C5_DuplicatesOfNonEmptyIds ==
    \A j \in 1..Scanned :
        DuplicateErrors(j) =
            IF HasNonEmptyStringId(j)
               /\ \E i \in 1..(j - 1) : HasNonEmptyStringId(i) /\ SameId(i, j)
            THEN 1 ELSE 0

\* C5 as amended: the same with "a string id that is not empty after trimming
\* white space" for "a non-empty string id"; it holds whether or not the id
\* passes the format rule.
C5_DuplicatesOfNonBlankIds ==
    \A j \in 1..Scanned :
        DuplicateErrors(j) =
            IF HasNonBlankStringId(j)
               /\ \E i \in 1..(j - 1) : HasNonBlankStringId(i) /\ SameId(i, j)
            THEN 1 ELSE 0

\* one id that fails the format rule occurs three times, and the second and
\* third occurrence, and only they, have a duplicate-id error
C5_Witness ==
    /\ Returned
    /\ Len(CatalogEntries) = 3
    /\ \A j \in 1..3 : HasNonBlankStringId(j) /\ SameId(1, j)
    /\ ~SnakeCase(Val(Get(CatalogEntries[1], "id")))
    /\ DuplicateErrors(1) = 0
    /\ DuplicateErrors(2) = 1
    /\ DuplicateErrors(3) = 1

\* C6: unless VALIDATE_IMAGE_FILES is exactly "true", the existence of no image
\* file is ever looked up and no 'Image file not found' or 'Image variant file
\* not found' error is reported, so the result does not depend on the files.
C6_ToggleOffNoFileErrors ==
    env /= JStr(<<"t", "r", "u", "e">>) =>
        /\ probes = {}
        /\ pc /= "images"
        /\ ~checkImageFiles
        /\ \A n \in 1..Len(result.errors) :
              result.errors[n].kind \notin ImageFileKinds

\* a run with the toggle set to "TRUE" passed although no referenced file exists
C6_Witness ==
    /\ Returned
    /\ env = JStr(<<"T", "R", "U", "E">>)
    /\ files = {}
    /\ Len(CatalogEntries) > 0
    /\ \A j \in 1..Len(CatalogEntries) :
          Truthy(Get(CatalogEntries[j], "imagePath"))
    /\ result.success

\* the string paths entry j names: its imagePath and its imageVariants values
ReferencedPaths(drink) ==
    IF NotAnObject(drink) THEN {}
    ELSE (IF Tag(Get(drink, "imagePath")) = "string"
          THEN {Get(drink, "imagePath")} ELSE {})
         \cup (IF Tag(Get(drink, "imageVariants")) = "object"
               THEN {e[2] : e \in {x \in Range(ObjectEntries(Get(drink, "imageVariants"))) :
                                      Tag(x[2]) = "string"}}
               ELSE {})

\* C7: when a run with VALIDATE_IMAGE_FILES = "true" has returned, every path
\* an entry names (its imagePath, each imageVariants value) whose file does not
\* exist has an error that names the path.
C7_EveryMissingFileReported ==
    (Returned /\ ~StructuralFailure /\ env = JStr(<<"t", "r", "u", "e">>)) =>
        \A j \in 1..Len(CatalogEntries) :
            \A p \in ReferencedPaths(CatalogEntries[j]) :
                Val(p) \notin files /\ Val(p) /= <<>> =>
                    \E n \in 1..Len(result.errors) :
                        /\ result.errors[n].kind \in ImageFileKinds
                        /\ result.errors[n].path = p

\* the ids of the entries before position j that the id rule accepts
SeenBefore(j) ==
    {Val(Get(CatalogEntries[i], "id")) :
        i \in {k \in 1..(j - 1) : /\ ~NotAnObject(CatalogEntries[k])
                                  /\ IdUsable(CatalogEntries[k])}}

\* what the rules other than the imageVariants rule find in entry j
OtherFieldsOutcome(j) ==
    LET drink == CatalogEntries[j]
    IN Chain(<<IdRule(drink, j - 1, SeenBefore(j)), NameRule(drink, j - 1),
               CategoryRule(drink, j - 1), PopularityRule(drink, j - 1),
               AliasesRule(drink, j - 1), ImagePathRule(drink, j - 1),
               ModifiersSupportedRule(revision, drink, j - 1),
               IF revision = "README.md" THEN ExtendedRules(drink, j - 1)
               ELSE Nothing>>)

LacksImageVariants(j) ==
    /\ ~NotAnObject(CatalogEntries[j])
    /\ ~HasKey(CatalogEntries[j], "imageVariants")

\* exactly one entry has no imageVariants key; its other fields and all the
\* other entries are valid
OnlyImageVariantsMissing ==
    /\ ~StructuralFailure
    /\ \E k \in 1..Len(CatalogEntries) :
          /\ LacksImageVariants(k)
          /\ OtherFieldsOutcome(k).errors = <<>>
          /\ ~OtherFieldsOutcome(k).threw
          /\ \A j \in 1..Len(CatalogEntries) \ {k} :
                /\ ~NotAnObject(CatalogEntries[j])
                /\ HasKey(CatalogEntries[j], "imageVariants")
                /\ EntryOutcome(revision, CatalogEntries[j], j - 1,
                                SeenBefore(j)) = Outcome(<<>>,
                       EntryOutcome(revision, CatalogEntries[j], j - 1,
                                    SeenBefore(j)).warnings, FALSE)

\* flags.json is absent, or is an object (or array) whose forceTextOnly, if
\* present, is a boolean and whose catalogVersion, if present, is a string
FlagsClean ==
    \/ ~flagsFile.exists
    \/ /\ flagsFile.parses
       /\ Tag(flagsFile.value) \in {"object", "array"}
       /\ Tag(Get(flagsFile.value, "forceTextOnly")) = "boolean"
             \/ ~HasKey(flagsFile.value, "forceTextOnly")
       /\ Tag(Get(flagsFile.value, "catalogVersion")) = "string"
             \/ ~HasKey(flagsFile.value, "catalogVersion")

\* the toggle is off, or every file an entry names exists
NoFileMissing ==
    \/ env /= JStr(<<"t", "r", "u", "e">>)
    \/ \A j \in 1..Len(CatalogEntries) :
          \A q \in ReferencedPaths(CatalogEntries[j]) : Val(q) \in files

\* C8 as stated: such a catalog gives exactly one error and success = false.
C8_OneErrorForMissingVariants ==
    (Returned /\ OnlyImageVariantsMissing) =>
        Len(result.errors) = 1 /\ ~result.success

\* C8 as amended: such a catalog never makes the run throw and gives the error
\* 'imageVariants must be an object' and success = false; that error is the
\* only one when flags.json adds no error and, with the toggle on, no named
\* file is missing.
C8_OneErrorWhenNothingElseFails ==
    OnlyImageVariantsMissing =>
        /\ ~Threw
        /\ Returned =>
              /\ ~result.success
              /\ Cardinality({n \in 1..Len(result.errors) :
                     result.errors[n].kind = "imageVariants must be an object"}) = 1
              /\ (FlagsClean /\ NoFileMissing) => Len(result.errors) = 1

\* a valid entry followed by an entry without imageVariants, checked with the
\* toggle on and an unrecognized key in flags.json
C8_Witness ==
    /\ Returned
    /\ OnlyImageVariantsMissing
    /\ Len(CatalogEntries) = 2
    /\ LacksImageVariants(2)
    /\ flagsFile.exists
    /\ FlagsClean
    /\ checkImageFiles
    /\ NoFileMissing
    /\ Len(result.errors) = 1

EmptyCatalog == ~StructuralFailure /\ CatalogEntries = <<>>

\* C9 as stated: an empty array gives success = true, no error and no warning.
C9_EmptyCatalogPasses ==
    (Returned /\ EmptyCatalog) => result = EmptyResult

\* C9 as amended: on an empty array the run returns without throwing, with no
\* warning and with no error other than those of flags.json; it returns
\* success = true with no error exactly when flags.json is absent or is an
\* object whose recognized keys are well typed.
C9_EmptyCatalogPassesUnlessFlagsFail ==
    EmptyCatalog =>
        /\ ~Threw
        /\ probes = {}
        /\ result.warnings = <<>>
        /\ \A n \in 1..Len(result.errors) : result.errors[n].kind \in FlagsKinds
        /\ Returned => (result = EmptyResult <=> FlagsClean)

\* an empty catalog passed, with the toggle on, beside a well-typed flags.json
C9_Witness ==
    /\ Returned
    /\ EmptyCatalog
    /\ flagsFile.exists
    /\ HasKey(flagsFile.value, "forceTextOnly")
    /\ env = JStr(<<"t", "r", "u", "e">>)
    /\ result = EmptyResult

\* the errors of the flags cross-check in the error list, in order
FlagsErrors ==
    LET fe == SelectSeq(result.errors, LAMBDA m : m.kind \in FlagsKinds)
    IN [n \in 1..Len(fe) |-> fe[n].kind]

\* key is present in flags.json with a value that is not of type t
BadFlag(key, t) ==
    /\ \E n \in 1..Len(Val(flagsFile.value)) : Val(flagsFile.value)[n][1] = key
    /\ \A n \in 1..Len(Val(flagsFile.value)) :
          Val(flagsFile.value)[n][1] = key => Tag(Val(flagsFile.value)[n][2]) /= t

\* C10: no error of the flags cross-check is in the list before the check
\* runs; once it has run, an absent flags.json has added none, an unparsable
\* one has added exactly one, and one that parses to an object has added
\* exactly one for forceTextOnly present and not a boolean and one for
\* catalogVersion present and not a string, whatever its other keys.
C10_FlagsCrossCheck ==
    /\ ~Returned => FlagsErrors = <<>>
    /\ (Returned /\ ~StructuralFailure) =>
          /\ ~flagsFile.exists => FlagsErrors = <<>>
          /\ (flagsFile.exists /\ ~flagsFile.parses) =>
                FlagsErrors = <<"Failed to parse flags.json">>
          /\ (flagsFile.exists /\ flagsFile.parses
                /\ Tag(flagsFile.value) = "object") =>
                FlagsErrors =
                    (IF BadFlag("forceTextOnly", "boolean")
                     THEN <<"flags.json: forceTextOnly must be a boolean">>
                     ELSE <<>>)
                    \o (IF BadFlag("catalogVersion", "string")
                        THEN <<"flags.json: catalogVersion must be a string">>
                        ELSE <<>>)

\* flags.json has forceTextOnly: null, a string catalogVersion and an
\* unrecognized key, and exactly the forceTextOnly error was added
C10_Witness ==
    /\ Returned
    /\ ~StructuralFailure
    /\ flagsFile.exists
    /\ flagsFile.parses
    /\ Tag(flagsFile.value) = "object"
    /\ Get(flagsFile.value, "forceTextOnly") = JNull
    /\ Tag(Get(flagsFile.value, "catalogVersion")) = "string"
    /\ HasKey(flagsFile.value, "theme")
    /\ FlagsErrors = <<"flags.json: forceTextOnly must be a boolean">>

\* the callback of the first forEach has run on entry j to its end
Completed(j) ==
    /\ j \in 1..Scanned
    /\ ~(Threw /\ ~checkImageFiles /\ j = index)

\* the number of errors of one of the kinds reported for the entry at position j
ErrorsOf(j, kinds) ==
    Cardinality({n \in 1..Len(result.errors) :
                    /\ result.errors[n].kind \in kinds
                    /\ result.errors[n].index = j - 1})

ModifiersKinds ==
    {"modifiersSupported must be boolean or an array of strings",
     "modifiersSupported must be an array of strings if provided"}

\* C11: an entry whose modifiersSupported is a boolean, or an array whose
\* elements are all strings, has no modifiersSupported error once its checks
\* have run.
C11_ModifiersSupportedShapes ==
    \A j \in 1..Len(CatalogEntries) :
        LET ms == Get(CatalogEntries[j], "modifiersSupported")
        IN (/\ Completed(j)
            /\ ~NotAnObject(CatalogEntries[j])
            /\ Tag(ms) = "boolean" \/ (Tag(ms) = "array" /\ EveryString(ms)))
           => ErrorsOf(j, ModifiersKinds) = 0

\* the mismatch warnings reported for key k of the entry at position j
MismatchWarnings(j, k) ==
    {n \in 1..Len(result.warnings) :
        /\ result.warnings[n].kind = "path should be"
        /\ result.warnings[n].index = j - 1
        /\ result.warnings[n].key = k}

\* drinks/_thumbs/<base>_512.png for sm and 512, drinks/_thumbs/<base>_1024.png
\* for md and 1024, base being imagePath's basename without its extension
ExpectedVariant(drink, k) ==
    LET p == Val(Get(drink, "imagePath"))
    IN JStr(ThumbsPrefix \o BaseName(p, ExtName(p))
            \o (IF k \in {"sm", "512"} THEN Suffix512 ELSE Suffix1024))

RecognizedKeys == {"sm", "md", "512", "1024"}

\* entry j is an object with an imageVariants object, and its checks have run
VariantsChecked(j) ==
    /\ Completed(j)
    /\ ~NotAnObject(CatalogEntries[j])
    /\ Tag(Get(CatalogEntries[j], "imageVariants")) = "object"

\* C12 as stated: a recognized key that is present has no mismatch warning
\* when its value is the expected path and exactly one, naming the expected
\* path, when it is anything else; a mismatch is never an error.
C12_MismatchWarningPerPresentKey ==
    /\ \A n \in 1..Len(result.errors) : result.errors[n].kind /= "path should be"
    /\ \A j \in 1..Len(CatalogEntries) : \A k \in RecognizedKeys :
          (VariantsChecked(j) /\ HasKey(Get(CatalogEntries[j], "imageVariants"), k)) =>
              LET v == Get(Get(CatalogEntries[j], "imageVariants"), k)
                  expected == ExpectedVariant(CatalogEntries[j], k)
              IN /\ Cardinality(MismatchWarnings(j, k)) =
                        IF v = expected THEN 0 ELSE 1
                 /\ \A n \in MismatchWarnings(j, k) :
                        result.warnings[n].path = expected

\* C12 as amended: the same for a recognized key whose value is truthy; a key
\* whose value is null, false, 0 or the empty string has no mismatch warning.
C12_MismatchWarningPerTruthyKey ==
    /\ \A n \in 1..Len(result.errors) : result.errors[n].kind /= "path should be"
    /\ \A j \in 1..Len(CatalogEntries) : \A k \in RecognizedKeys :
          VariantsChecked(j) =>
              LET v == Get(Get(CatalogEntries[j], "imageVariants"), k)
                  expected == ExpectedVariant(CatalogEntries[j], k)
              IN /\ Cardinality(MismatchWarnings(j, k)) =
                        IF Truthy(v) /\ v /= expected THEN 1 ELSE 0
                 /\ \A n \in MismatchWarnings(j, k) :
                        result.warnings[n].path = expected

\* imagePath drinks/margarita.png with sm = drinks/_thumbs/marg_512.png and the
\* right md: one warning, naming drinks/_thumbs/margarita_512.png, and no error
C12_Witness ==
    /\ Returned
    /\ Len(CatalogEntries) = 1
    /\ Get(CatalogEntries[1], "imagePath") = ImageOf(Margarita)
    /\ Get(Get(CatalogEntries[1], "imageVariants"), "sm")
          = Thumb512(<<"m", "a", "r", "g">>)
    /\ result.errors = <<>>
    /\ Len(result.warnings) = 1
    /\ result.warnings[1].kind = "path should be"
    /\ result.warnings[1].key = "sm"
    /\ result.warnings[1].path =
          JStr(ThumbsPrefix \o <<"m", "a", "r", "g", "a", "r", "i", "t", "a",
                                 "_", "5", "1", "2", ".", "p", "n", "g">>)

FormatKinds == {"id must be in snake_case format"}
IdKinds == FormatKinds \cup {"id must be a non-empty string", "duplicate id"}

\* the id of entry j has a character that is not a-z, 0-9 or _
HasOtherCharacter(j) ==
    \E n \in 1..Len(Val(Get(CatalogEntries[j], "id"))) :
        Val(Get(CatalogEntries[j], "id"))[n] \notin LowerAlnum

\* C13 as stated: an entry scanned so far whose id is a non-empty string has
\* one format error if the id has a character outside a-z, 0-9 and _, and no
\* format error otherwise.
C13_FormatErrorOfNonEmptyIds ==
    \A j \in 1..Scanned :
        HasNonEmptyStringId(j) =>
            ErrorsOf(j, FormatKinds) = IF HasOtherCharacter(j) THEN 1 ELSE 0

\* C13 as amended: the same for an id that is not empty after trimming white
\* space; an id of white space only has the 'non-empty string' error and no
\* format error, so every non-empty string id with a character outside the
\* set is rejected with an id error.
C13_FormatErrorOfNonBlankIds ==
    \A j \in 1..Scanned :
        /\ HasNonBlankStringId(j) =>
              ErrorsOf(j, FormatKinds) = IF HasOtherCharacter(j) THEN 1 ELSE 0
        /\ (HasNonEmptyStringId(j) /\ ~HasNonBlankStringId(j)) =>
              /\ ErrorsOf(j, FormatKinds) = 0
              /\ ErrorsOf(j, {"id must be a non-empty string"}) = 1
        /\ (HasNonEmptyStringId(j) /\ HasOtherCharacter(j)) =>
              ErrorsOf(j, IdKinds) >= 1

\* "my_drink_1" followed by "My-Drink": the second id, and only it, is rejected
C13_Witness ==
    /\ Returned
    /\ Len(CatalogEntries) = 2
    /\ Get(CatalogEntries[1], "id") = JStr(MyDrink1)
    /\ Get(CatalogEntries[2], "id") = JStr(MyDashDrink)
    /\ ErrorsOf(1, IdKinds) = 0
    /\ ErrorsOf(2, FormatKinds) = 1
    /\ Len(result.errors) = 1

PopularityKinds == {"popularity must be a number between 0 and 100"}

\* C14: an object entry scanned so far has one popularity error when its
\* popularity is missing, is not a number, is below 0 or is above 100, and
\* none when it is a number from 0 to 100, both ends included.
C14_PopularityClosedRange ==
    \A j \in 1..Scanned :
        ~NotAnObject(CatalogEntries[j]) =>
            LET popularity == Get(CatalogEntries[j], "popularity")
            IN ErrorsOf(j, PopularityKinds) =
                  IF Tag(popularity) = "number"
                     /\ Val(popularity) \in 0..100
                  THEN 0 ELSE 1

\* popularity 0, 100, -1 and 101 in one catalog: the last two entries, and
\* only they, have the popularity error
C14_Witness ==
    /\ Returned
    /\ Len(CatalogEntries) = 4
    /\ [j \in 1..4 |-> Get(CatalogEntries[j], "popularity")]
          = <<JNum(0), JNum(100), JNum(0 - 1), JNum(101)>>
    /\ [j \in 1..4 |-> ErrorsOf(j, PopularityKinds)] = <<0, 0, 1, 1>>

\* the process has ended
Exited == exitCode /= NoExit

\* C15: the process does not end before validateCatalog has stopped; when it
\* ends after validateCatalog returned a result, the exit code is 0 if the
\* result has no error and 1 if it has one, whatever its warnings; an
\* exception that left validateCatalog ends the process with exit code 1.
C15_ExitCodeFollowsErrors ==
    /\ Exited => (Returned \/ Threw)
    /\ (Exited /\ Returned) =>
          exitCode = IF result.errors = <<>> THEN 0 ELSE 1
    /\ (Exited /\ Threw) => exitCode = 1

\* the process ended with exit code 0 after a run that gave warnings
C15_Witness ==
    /\ Returned
    /\ exitCode = 0
    /\ result.warnings /= <<>>
    /\ result.errors = <<>>

\* the first forEach over the elements from position j on
RECURSIVE EntriesOutcome(_, _, _, _)
EntriesOutcome(rev, entries, j, seen) ==
    IF j > Len(entries) THEN Nothing
    ELSE Then(EntryOutcome(rev, entries[j], j - 1, seen),
              EntriesOutcome(rev, entries, j + 1,
                             IF NotAnObject(entries[j]) THEN seen
                             ELSE SeenAfter(entries[j], seen)))

\* validateCatalog as one function of what it reads: the two files, the
\* environment variable and the files that exist under the catalog root
RunOutcome(rev, cat, fl, e, fs) ==
    IF ~cat.exists
    THEN Err(Msg("drinks.json file not found", NoIndex, NoLabel, "", JNull))
    ELSE IF ~cat.parses
    THEN Err(Msg("Failed to parse drinks.json", NoIndex, NoLabel, "", JNull))
    ELSE IF ~IsArray(cat.value)
    THEN Err(Msg("drinks.json must contain an array", NoIndex, NoLabel, "", JNull))
    ELSE Chain(<<EntriesOutcome(rev, Val(cat.value), 1, {}),
                 IF ToggleOn(e)
                 THEN Chain([j \in 1..Len(Val(cat.value)) |->
                                ImageFilesOutcome(fs, Val(cat.value)[j])])
                 ELSE Nothing,
                 FlagsOutcome(fl)>>)

\* C16: the result a run returns is the one the same catalog content, flags
\* content and toggle value give whichever files exist under the catalog root.
C16_ResultOfThreeInputs ==
    Returned =>
        \A fs \in FileSystems :
            /\ ~RunOutcome(revision, catalogFile, flagsFile, env, fs).threw
            /\ result = Push(EmptyResult,
                             RunOutcome(revision, catalogFile, flagsFile, env, fs))

\* the per-entry errors and warnings reported for the entry at position j
EntryErrors(j) ==
    {n \in 1..Len(result.errors) : result.errors[n].index = j - 1}
EntryWarnings(j) ==
    {n \in 1..Len(result.warnings) : result.warnings[n].index = j - 1}

\* C19: an element that is not a non-null object has, once scanned, the error
\* 'must be an object' as its only per-entry error and no warning; it is never
\* the element on which the run stops with an exception, in either forEach;
\* and while the entries are scanned seenIds holds just the ids of the object
\* entries scanned before.
C19_NonObjectElementSkipped ==
    /\ pc = "entries" => seenIds = SeenBefore(index + 1)
    /\ \A j \in 1..Len(CatalogEntries) :
          NotAnObject(CatalogEntries[j]) =>
              /\ j \in 1..Scanned =>
                    /\ Cardinality(EntryErrors(j)) = 1
                    /\ ErrorsOf(j, {"must be an object"}) = 1
                    /\ EntryWarnings(j) = {}
              /\ ~(Threw /\ index = j)

AliasesKinds == {"aliases must be an array of strings if provided"}

\* C20: an object entry scanned so far has no aliases error when it has no
\* aliases key, and when it has the key it has one exactly if the value is
\* not an array whose elements are all strings.
C20_AliasesArrayOfStrings ==
    \A j \in 1..Scanned :
        ~NotAnObject(CatalogEntries[j]) =>
            LET aliases == Get(CatalogEntries[j], "aliases")
            IN ErrorsOf(j, AliasesKinds) =
                  IF HasKey(CatalogEntries[j], "aliases")
                     /\ ~(Tag(aliases) = "array" /\ EveryString(aliases))
                  THEN 1 ELSE 0

\* the generator has stopped, with or without an error
GeneratorStopped == gpc \in {"done", "exited"}

\* C17: in a second run over the same drinks/ directory no file is counted
\* as new, the count printed (if the run gets to print it) is 0, the set of
\* files in drinks/_thumbs stays what the first run left, and when the run
\* stops each file has the content the first run left.
C17_SecondRunIdempotent ==
    run = 2 =>
        /\ created = 0
        /\ reported \in {NoReport, 0}
        /\ DOMAIN thumbs = DOMAIN afterFirstRun
        /\ GeneratorStopped => thumbs = afterFirstRun
        /\ (gpc = "done" /\ sources /= <<>>) => reported = 0

\* the second run over a.png and a.jpg, which share their outputs, has ended
\* and reported 0 new files, the first run having written files
C17_Witness ==
    /\ run = 2
    /\ gpc = "done"
    /\ reported = 0
    /\ sources = <<APng, AJpg>>
    /\ Len(wrote) = 4
    /\ thumbs = afterFirstRun
    /\ \E n \in DOMAIN thumbs : thumbs[n] /= Stale

\* the outputs of the sources, in order: for each source its 512 output and
\* then its 1024 output
RECURSIVE ExpectedOrder(_)
ExpectedOrder(srcs) ==
    IF srcs = <<>> THEN <<>>
    ELSE <<StripExtension(Head(srcs)) \o Suffix512,
           StripExtension(Head(srcs)) \o Suffix1024>>
         \o ExpectedOrder(Tail(srcs))

IsPrefix(a, b) == Len(a) <= Len(b) /\ SubSeq(b, 1, Len(a)) = a

\* the sources before the first one sharp cannot read
RECURSIVE ReadablePrefix(_)
ReadablePrefix(srcs) ==
    IF srcs = <<>> \/ Head(srcs) \in unreadable THEN <<>>
    ELSE <<Head(srcs)>> \o ReadablePrefix(Tail(srcs))

\* C18: at most one resize is in flight, and it is the one that follows the
\* outputs written so far; the sources are the images of the listing in the
\* listing's order, and the outputs are written in that order, 512 before
\* 1024 for each source; a resize that fails ends the run at once with exit
\* code 1, the outputs written before it staying in place, and a run with a
\* failing resize never gets to its end.
C18_OneAtATimeInOrder ==
    /\ Cardinality(inFlight) <= 1
    /\ gpc /= "start" /\ sharpInstalled =>
          sources = SelectSeq(listing, IsSourceImage)
    /\ IsPrefix(wrote, ExpectedOrder(sources))
    /\ \A r \in inFlight :
          /\ gpc = "await"
          /\ Len(wrote) < Len(ExpectedOrder(sources))
          /\ r[2] = ExpectedOrder(sources)[Len(wrote) + 1]
          /\ r[1] = sources[(Len(wrote) \div 2) + 1]
    /\ (gpc = "exited" /\ sharpInstalled) =>
          /\ exitCode = 1
          /\ inFlight = {}
          /\ wrote = ExpectedOrder(ReadablePrefix(sources))
          /\ \A n \in 1..Len(wrote) :
                wrote[n] \in DOMAIN thumbs /\ thumbs[wrote[n]] /= Stale
    /\ gpc \in {"report", "done"} => ReadablePrefix(sources) = sources

\* the first source was resized to both widths, the second could not be read:
\* the run ended with exit code 1 and the two outputs in place
C18_Witness ==
    /\ run = 1
    /\ gpc = "exited"
    /\ exitCode = 1
    /\ Len(sources) >= 2
    /\ sources[2] \in unreadable
    /\ wrote = <<OutName(sources[1], 1), OutName(sources[1], 2)>>
    /\ thumbs[wrote[1]] = <<sources[1], 512>>
    /\ thumbs[wrote[2]] = <<sources[1], 1024>>

CategoryKinds == {"category must be a string"}

\* C21 as stated: an object entry scanned so far has one category error when
\* its category key is missing or its value is not a string, and none when
\* the value is a string, the empty string included.
C21_CategoryPresentString ==
    \A j \in 1..Scanned :
        ~NotAnObject(CatalogEntries[j]) =>
            ErrorsOf(j, CategoryKinds) =
                IF Tag(Get(CatalogEntries[j], "category")) = "string"
                THEN 0 ELSE 1

\* C21 as amended: the same with the empty string among the values that get
\* the error; every other string, one of white space only included, gets none.
C21_CategoryNonEmptyString ==
    \A j \in 1..Scanned :
        ~NotAnObject(CatalogEntries[j]) =>
            ErrorsOf(j, CategoryKinds) =
                IF /\ Tag(Get(CatalogEntries[j], "category")) = "string"
                   /\ Val(Get(CatalogEntries[j], "category")) /= <<>>
                THEN 0 ELSE 1

\* category "" followed by category " ": the first entry, and only it, has
\* the category error
C21_Witness ==
    /\ Returned
    /\ Len(CatalogEntries) = 2
    /\ Get(CatalogEntries[1], "category") = JStr(<<>>)
    /\ Get(CatalogEntries[2], "category") = JStr(<<" ">>)
    /\ ErrorsOf(1, CategoryKinds) = 1
    /\ ErrorsOf(2, CategoryKinds) = 0

\* the phase a message belongs to: 0 structural, 1 per-entry, 2 filesystem
\* cross-check, 3 flags cross-check
Phase(m) ==
    IF m.kind \in StructuralKinds THEN 0
    ELSE IF m.kind \in ImageFileKinds THEN 2
    ELSE IF m.kind \in FlagsKinds THEN 3
    ELSE 1

\* no message of a later phase before one of an earlier phase, and no
\* per-entry message of a higher index before one of a lower index
Ordered(q) ==
    \A m, n \in 1..Len(q) :
        m < n =>
            /\ Phase(q[m]) <= Phase(q[n])
            /\ (Phase(q[m]) = 1 /\ Phase(q[n]) = 1) => q[m].index <= q[n].index

\* C22: in every state of a run the error list and the warning list are
\* ordered by phase and, within the per-entry phase, by entry index; and
\* every step leaves what both lists held in place, adding at the end only.
C22_OrderedAndGrowing ==
    /\ [](Ordered(result.errors) /\ Ordered(result.warnings))
    /\ [][/\ IsPrefix(result.errors, result.errors')
          /\ IsPrefix(result.warnings, result.warnings')]_vars

\* a run has returned with per-entry errors for two entries, a file error
\* and a flags error in the list, and warnings for two entries
C22_Witness ==
    /\ Returned
    /\ {result.errors[n].index : n \in 1..Len(result.errors)}
          = {NoIndex, 1, 2}
    /\ \E n \in 1..Len(result.errors) : Phase(result.errors[n]) = 2
    /\ \E n \in 1..Len(result.errors) : Phase(result.errors[n]) = 3
    /\ {result.warnings[n].index : n \in 1..Len(result.warnings)} = {0, 2}

\* the output names <base>_512.png and <base>_1024.png of the sources
OutputsOf(srcs) ==
    UNION {{StripExtension(srcs[n]) \o Suffix512,
            StripExtension(srcs[n]) \o Suffix1024} : n \in 1..Len(srcs)}

\* the count printed is the number of distinct outputs that were not in
\* drinks/_thumbs before the run
CountsNewOutputs ==
    reported = Cardinality(OutputsOf(sources) \ DOMAIN beforeRun)

\* a file that was in drinks/_thumbs before the run and is no source's output
\* is still there with its content
OthersUntouched ==
    \A n \in DOMAIN beforeRun \ OutputsOf(sources) :
        n \in DOMAIN thumbs /\ thumbs[n] = beforeRun[n]

\* every source has its two outputs: its own image at width 512 and at 1024
EachSourceHasItsOutputs ==
    \A n \in 1..Len(sources) :
        LET f == sources[n]
        IN /\ StripExtension(f) \o Suffix512 \in DOMAIN thumbs
           /\ thumbs[StripExtension(f) \o Suffix512] = <<f, 512>>
           /\ StripExtension(f) \o Suffix1024 \in DOMAIN thumbs
           /\ thumbs[StripExtension(f) \o Suffix1024] = <<f, 1024>>

\* C23: when a run over at least one source image has ended with its report,
\* the count printed is the number of distinct outputs that did not exist
\* before the run, every source has two outputs of its own, and the files no
\* source maps to are untouched.
C23_NewFileCount ==
    (gpc = "done" /\ sources /= <<>>) =>
        /\ CountsNewOutputs
        /\ EachSourceHasItsOutputs
        /\ OthersUntouched

====
